---- MODULE Spec2Model ----
(***************************************************************************)
(* Model of the web3fy-go product pipeline: the /products and              *)
(* /products-enhanced route handlers (src/src/routes/api.ts), the          *)
(* DatabaseService cache layer and the AmazonScraper fallback chain and    *)
(* retry helper (src/src/services/database.ts), and the enhanced scraper   *)
(* (src/src/services/scraper_enhanced.ts).                                 *)
(*                                                                         *)
(* Every await of a handler is one action; the outcome of each browser,    *)
(* HTTP and database operation is chosen by the environment.               *)
(***************************************************************************)
EXTENDS Integers, Sequences, FiniteSets, TLC

VARIABLES
    products,     \* rows of the products table, in insertion order
    sessions,     \* rows of the scraping_sessions table, in insertion order
    pc,           \* position of the request being handled ("idle" when none)
    req,          \* parameters and local variables of that request
    response,     \* the response sent for the last request
    browser,      \* AmazonScraper.browser: 0 is null, otherwise the instance
    enhBrowser,   \* EnhancedAmazonScraper.browser, same encoding
    launches,     \* browser processes launched so far (names the instances)
    pageOpen,     \* TRUE while the page created for this request is open
    skipBrowser,  \* process.env.SKIP_BROWSER === 'true'
    nreq,         \* requests accepted so far
    attempt,      \* retryOperation: the loop variable
    rpc,          \* retryOperation: position
    calls,        \* retryOperation: the invocations of operation(), in order
    waits,        \* retryOperation: the delays slept, in order
    lastError,    \* retryOperation: lastError
    rresult,      \* retryOperation: how the call ended
    tx,           \* saveProducts: the transaction of each database client
    log,          \* the rows of the committed transactions, in commit order
    lastRead,     \* the getProducts or hasFreshData call just made, and its result
    nsaves,       \* saveProducts calls started so far
    scroll,       \* the locals of a scraper's extraction loop
    procs,        \* the browser processes that are alive
    useLocalBrowser, \* AmazonScraper.useLocalBrowser
    acq,          \* the createPage / scrapeProductDetails call of each caller
    closing,      \* the browsers whose close() a closeBrowser call awaits
    retired,      \* the browsers that were running when the mode was changed
    ncalls,       \* scraper calls started so far
    cfgResp,      \* the last answer of POST /scraper-config
    conns,        \* the database operation of each caller and its connection
    checkedOut,   \* clients checked out of the pool
    tierUrls,     \* the URLs the tiers of one getTrendingProducts call use
    extract       \* one candidate element on its way to a table row

vars == <<products, sessions, pc, req, response, browser, enhBrowser, launches,
          pageOpen, skipBrowser, nreq, attempt, rpc, calls, waits,
          lastError, rresult, tx, log, lastRead, nsaves, scroll,
          procs, useLocalBrowser, acq, closing, retired, ncalls, cfgResp,
          conns, checkedOut, tierUrls, extract>>

dbVars == <<products, sessions>>
retryVars == <<attempt, rpc, calls, waits, lastError, rresult>>
browserVars == <<browser, enhBrowser, launches, pageOpen>>
storeVars == <<tx, log, lastRead, nsaves>>
scrollVars == <<scroll>>
launchVars == <<procs, useLocalBrowser, acq, closing, retired, ncalls, cfgResp>>
poolVars == <<conns, checkedOut>>
probeVars == <<tierUrls, extract>>
\* the state of the component specifications, which a request leaves alone
sideVars == <<retryVars, storeVars, scrollVars, launchVars, poolVars, probeVars>>

----------------------------------------------------------------------------
(* Bounds of the model *)

PoolMax == 3       \* clients of the pool (max: 20 in the code)
MaxBadge == 3      \* characters in the text of a rank badge
MaxPosition == 2   \* candidate elements on the page

MaxRequests == 2      \* requests handled in one behaviour
MaxLimit == 2         \* largest limit a request asks for
MaxSaves == 2         \* saveProducts calls, and database clients, in one behaviour
MaxItems == 7         \* records the best-sellers page can hold in a scroll run
MaxTarget == 8        \* largest targetProducts of a scroll run

Clients == 1..MaxSaves
MaxCallers == 2       \* concurrent callers of the scrapers
MaxCalls == 3         \* scraper calls in one behaviour

Callers == 1..MaxCallers

(* Program constants *)

maxRetries == 3                \* AmazonScraper.maxRetries
retryDelay == 2000             \* AmazonScraper.retryDelay
CACHE_MAX_AGE_HOURS == 24      \* default of maxAgeHours in the routes
ENHANCED_FALLBACK_HOURS == 72  \* window of the enhanced route's fallback reads

\* the clock of the model advances by one freshness window at a time, and ages
\* are capped at the largest read window: beyond it no read tells them apart
TickHours == CACHE_MAX_AGE_HOURS
MaxAge == ENHANCED_FALLBACK_HOURS

NoAsin == "none"
Min(a, b) == IF a < b THEN a ELSE b

\* Array.prototype.slice(0, n) for n >= 0
Slice(s, n) == SubSeq(s, 1, Min(n, Len(s)))

----------------------------------------------------------------------------
(* Records.  A Product is what a scraper tier returns; link and source are   *)
(* kept as the ASIN that the code's patterns read out of them.  A rank is a  *)
(* number (rank) or, when rankIsString, a string (rankText, one character    *)
(* per element).                                                             *)

NoTag == "notag"   \* product.source without the text 'ASIN:'

Product(rank, title, asin, link, src) ==
    [rank |-> rank, title |-> title, asin |-> asin, sourceAsin |-> NoTag,
     link |-> link, src |-> src, age |-> 0, extra |-> {},
     rankIsString |-> FALSE, rankText |-> <<>>]

\* what the best-sellers page shows: data-asin and a /dp/ link on the first
\* element, data-asin but no /dp/ link on the second
PageItems ==
    << Product(1, "T1", "A1", "A1", "browser"),
       Product(2, "T2", "A2", NoAsin, "browser") >>

\* title-like fragments of the raw markup
HttpItems ==
    << Product(1, "H1", NoAsin, NoAsin, "http"),
       Product(2, "H2", NoAsin, NoAsin, "http") >>

\* src/src/services/database.ts:991-1042
fallbackProducts ==
    << Product(1, "Echo Dot", NoAsin, NoAsin, "static"),
       Product(2, "Fire TV Stick", NoAsin, NoAsin, "static"),
       Product(3, "AirPods", NoAsin, NoAsin, "static"),
       Product(4, "Kindle Paperwhite", NoAsin, NoAsin, "static"),
       Product(5, "Apple Watch", NoAsin, NoAsin, "static") >>

getFallbackProducts(limit) == Slice(fallbackProducts, limit)

----------------------------------------------------------------------------
(* DatabaseService *)

\* JavaScript's parseInt(text): leading white space is skipped, an optional
\* sign is read, then the longest run of digits; NaN without a digit
Digits == <<"0", "1", "2", "3", "4", "5", "6", "7", "8", "9">>
IsDigit(ch) == \E d \in 1..Len(Digits) : Digits[d] = ch
DigitValue(ch) == (CHOOSE d \in 1..Len(Digits) : Digits[d] = ch) - 1

RECURSIVE SkipSpace(_)
SkipSpace(text) ==
    IF text # <<>> /\ Head(text) = " " THEN SkipSpace(Tail(text)) ELSE text

RECURSIVE DigitRun(_, _)
\* the value of the leading digits of text after the digits read so far
DigitRun(text, value) ==
    IF text # <<>> /\ IsDigit(Head(text))
    THEN DigitRun(Tail(text), 10 * value + DigitValue(Head(text)))
    ELSE value

parseInt(text) ==
    LET t == SkipSpace(text)
        negative == t # <<>> /\ Head(t) = "-"
        signed == t # <<>> /\ Head(t) \in {"-", "+"}
        body == IF signed THEN Tail(t) ELSE t
    IN IF body = <<>> \/ ~IsDigit(Head(body))
       THEN [nan |-> TRUE, value |-> 0]
       ELSE [nan |-> FALSE,
             value |-> IF negative THEN 0 - DigitRun(body, 0)
                       ELSE DigitRun(body, 0)]

\* typeof product.rank === 'string' ? parseInt(product.rank) || 0 : product.rank
\* (NaN and 0 are falsy)
dbRank(product) ==
    IF product.rankIsString
    THEN LET n == parseInt(product.rankText)
         IN IF n.nan THEN 0 ELSE n.value
    ELSE product.rank

convertToDbProduct(product, category) ==
    LET asin == IF product.sourceAsin # NoTag THEN product.sourceAsin
                ELSE product.link
    IN [asin |-> IF asin = "" THEN NoAsin ELSE asin,
        rank |-> dbRank(product), title |-> product.title,
        sourceAsin |-> product.sourceAsin, link |-> product.link,
        src |-> product.src, category |-> category, age |-> product.age]

convertFromDbProduct(row) ==
    [rank |-> row.rank, title |-> row.title, asin |-> row.asin,
     sourceAsin |-> row.sourceAsin, link |-> row.link, src |-> row.src,
     age |-> row.age, extra |-> {}, rankIsString |-> FALSE,
     rankText |-> <<>>]

\* an insert that leaves the existing row alone on a conflict
UpsertRowKeep(table, row) ==
    IF row.asin # NoAsin /\ \E i \in 1..Len(table) : table[i].asin = row.asin
    THEN table
    ELSE Append(table, row)

\* INSERT ... ON CONFLICT (asin) DO UPDATE of one row; NULL never conflicts
UpsertRow(table, row) ==
    IF row.asin # NoAsin /\ \E i \in 1..Len(table) : table[i].asin = row.asin
    THEN [i \in 1..Len(table) |->
             IF table[i].asin = row.asin THEN row ELSE table[i]]
    ELSE Append(table, row)

RECURSIVE UpsertAll(_, _, _)
UpsertAll(table, list, category) ==
    IF list = <<>> THEN table
    ELSE UpsertAll(UpsertRow(table, convertToDbProduct(Head(list), category)),
                   Tail(list), category)

\* the table after a committed saveProducts
saveProducts(table, list, category) == UpsertAll(table, list, category)

\* an ordering that puts the older of two rows of equal rank first
RowBeforeOldestFirst(a, b) == a.rank < b.rank \/ (a.rank = b.rank /\ a.age > b.age)

\* ORDER BY rank ASC, scraped_at DESC
RowBefore(a, b) == a.rank < b.rank \/ (a.rank = b.rank /\ a.age < b.age)

RECURSIVE InsertSorted(_, _)
InsertSorted(sorted, row) ==
    IF sorted = <<>> THEN <<row>>
    ELSE IF RowBefore(row, Head(sorted)) THEN <<row>> \o sorted
    ELSE <<Head(sorted)>> \o InsertSorted(Tail(sorted), row)

RECURSIVE SortRows(_)
SortRows(rows) ==
    IF rows = <<>> THEN <<>>
    ELSE InsertSorted(SortRows(SubSeq(rows, 1, Len(rows) - 1)), rows[Len(rows)])

\* a window that takes in the row exactly maxAgeHours old
InWindowInclusive(row, category, maxAgeHours) ==
    row.category = category /\ row.age <= maxAgeHours

\* scraped_at > NOW() - INTERVAL 'maxAgeHours hours'
InWindow(row, category, maxAgeHours) ==
    row.category = category /\ row.age < maxAgeHours

getProducts(table, limit, category, maxAgeHours) ==
    LET hits == SelectSeq(table, LAMBDA r : InWindow(r, category, maxAgeHours))
        page == Slice(SortRows(hits), limit)
    IN [i \in 1..Len(page) |-> convertFromDbProduct(page[i])]

hasFreshData(table, category, maxAgeHours) ==
    LET hits == SelectSeq(table, LAMBDA r : InWindow(r, category, maxAgeHours))
    IN [hasFresh |-> Len(hits) > 0, count |-> Len(hits)]

\* the table holds a row of the category that is past the freshness window
\* and inside the extended window
HasStaleRow(table, category) ==
    \E i \in 1..Len(table) :
        /\ table[i].category = category
        /\ table[i].age >= CACHE_MAX_AGE_HOURS
        /\ table[i].age < ENHANCED_FALLBACK_HOURS

----------------------------------------------------------------------------
(* Requests *)

Categories == {"electronics"}
EnhancedCategory == "electronics-enhanced"
Trendings == {"amazon", "ebay", ""}     \* "" is a missing parameter
Limits == 1..MaxLimit

LiveLabel == "Live Scraping - Just scraped"
CacheLabel == "PostgreSQL Cache"
CacheFallbackLabel == "PostgreSQL Cache (Fallback) - Scraping failed"
StaticLabel == "Static Fallback Data - All other sources failed"
EnhCacheLabel == "Database Cache (Enhanced)"
EnhLiveLabel == "Live Enhanced Scraping - Just scraped with scrolling"
EnhFallbackLabel == "Database Cache (Enhanced Fallback) - Scraping failed"
EnhRegularLabel == "Database Cache (Regular Fallback) - Enhanced scraping failed"
EnhStaticLabel == "Static Fallback Data - All enhanced sources failed"

\* locals of a handler before its first statement
InitReq ==
    [endpoint |-> "none", trending |-> "", category |-> "electronics",
     limit |-> 1, force |-> FALSE,
     dbProducts |-> <<>>,     \* /products: the first cache read
     scraped |-> <<>>,        \* scrapedProducts
     savedCount |-> 0,
     sessionId |-> 0,         \* 0 is null
     pending |-> "none",      \* outcome of the extraction awaiting finally
     tier |-> "none",         \* the tier of the chain that returned
     t1calls |-> 0,           \* invocations of the browser extraction
     t2calls |-> 0,           \* invocations of the HTTP fetch
     failed |-> {},           \* operations of this request that threw
     stale |-> FALSE,         \* a stale row of the category was in the cache
     followUp |-> FALSE,      \* repeats the request before it, which saved
     answerCategory |-> ""]   \* category of the cached rows in the response

NoResponse == [status |-> 0, products |-> <<>>, source |-> ""]

Fail(op) == [req EXCEPT !.failed = @ \cup {op}]

\* res.json(successResponse(...)) / res.status(code).json(errorResponse(...))
Respond(r, status, list, label) ==
    /\ response' = [status |-> status, products |-> list, source |-> label]
    /\ req' = r
    /\ pc' = "done"

\* the outer catch of the handlers: 500
Respond500(op) == Respond(Fail(op), 500, <<>>, "")

\* the clock advances between requests, while another request can still
\* arrive: every stored scrapedAt grows older
Older(x) == [x EXCEPT !.age = Min(@ + TickHours, MaxAge)]
OlderAll(list) == [i \in 1..Len(list) |-> Older(list[i])]

Tick ==
    /\ pc \in {"idle", "done"}
    /\ nreq < MaxRequests
    /\ products # <<>>
    /\ products' = OlderAll(products)
    /\ UNCHANGED <<sessions, pc, req, response, skipBrowser, nreq>>
    /\ UNCHANGED browserVars
    /\ UNCHANGED sideVars

\* the request is running, or has run, an extraction
ExtractionStarted == req.t1calls + req.t2calls > 0

\* variant: only a missing trending parameter is rejected
TrendingAcceptedAny(trending) == trending # ""

\* if (!trending) 400; if (trending !== 'amazon') 400
TrendingAccepted(trending) == trending # "" /\ trending = "amazon"

\* the request before this one was the same one without force, it saved what
\* it extracted, and rows of its category are still inside the cache window
FollowsSavedRequest(endpoint, category, limit, force) ==
    /\ pc = "done"
    /\ response.status = 200
    /\ req.endpoint = endpoint /\ req.trending = "amazon"
    /\ req.category = category /\ req.limit = limit
    /\ ~req.force /\ ~force
    /\ ExtractionStarted
    /\ req.savedCount > 0
    /\ \E i \in 1..Len(products) :
          InWindow(products[i], category, CACHE_MAX_AGE_HOURS)

\* router.get('/products') and router.get('/products-enhanced') up to the
\* first await: parameter validation
StartRequest ==
    /\ pc \in {"idle", "done"}
    /\ nreq < MaxRequests
    /\ nreq' = nreq + 1
    /\ \E endpoint \in {"products", "enhanced"}, trending \in Trendings,
          category \in Categories, limit \in Limits, force \in BOOLEAN :
         LET r == [InitReq EXCEPT !.endpoint = endpoint, !.trending = trending,
                      !.category = IF endpoint = "enhanced"
                                   THEN EnhancedCategory ELSE category,
                      !.limit = limit, !.force = force,
                      !.followUp = FollowsSavedRequest(endpoint,
                                    IF endpoint = "enhanced"
                                    THEN EnhancedCategory ELSE category,
                                    limit, force),
                      !.stale = HasStaleRow(products,
                                    IF endpoint = "enhanced"
                                    THEN EnhancedCategory ELSE category)]
         IN \/ \* rejected before limit and force are read
               /\ ~TrendingAccepted(trending)
               /\ Respond([InitReq EXCEPT !.endpoint = endpoint,
                                          !.trending = trending], 400, <<>>, "")
            \/ /\ TrendingAccepted(trending)
               /\ req' = r
               /\ response' = NoResponse
               /\ pc' = IF endpoint = "products" THEN "getProducts"
                        ELSE IF force THEN "createSession"
                        ELSE "hasFreshData"
    /\ pageOpen' = FALSE
    /\ UNCHANGED <<products, sessions, skipBrowser, browser, enhBrowser, launches>>
    /\ UNCHANGED sideVars

\* the request answered with rows that were read under category
Cached(r, category) == [r EXCEPT !.answerCategory = category]

\* where a handler continues once its session row exists
ScrapeEntry(r) ==
    IF r.endpoint = "enhanced" THEN "enhCreatePage"
    ELSE IF skipBrowser THEN "http" ELSE "createPage"

\* /products: const dbProducts = await dbService.getProducts(...)
GetProducts ==
    /\ pc = "getProducts"
    /\ \/ LET rows == getProducts(products, req.limit, req.category,
                                  CACHE_MAX_AGE_HOURS)
              r == [req EXCEPT !.dbProducts = rows]
          IN IF Len(rows) > 0 /\ ~req.force
             THEN Respond(Cached(r, req.category), 200, rows, CacheLabel)
             ELSE /\ req' = r
                  /\ pc' = "createSession"
                  /\ UNCHANGED response
       \/ Respond500("getProducts")
    /\ UNCHANGED <<products, sessions, skipBrowser, nreq>>
    /\ UNCHANGED browserVars
    /\ UNCHANGED sideVars

\* sessionId = await dbService.createScrapingSession(source, category)
CreateScrapingSession ==
    /\ pc = "createSession"
    /\ \/ /\ sessions' = Append(sessions,
                 [source |-> IF req.endpoint = "enhanced"
                             THEN "amazon-enhanced-scraper" ELSE "amazon-scraper",
                  category |-> req.category, completed |-> FALSE,
                  success |-> FALSE, found |-> 0])
          /\ req' = [req EXCEPT !.sessionId = Len(sessions) + 1]
          /\ pc' = ScrapeEntry(req)
          /\ UNCHANGED response
       \/ /\ Respond500("createSession")
          /\ UNCHANGED sessions
    /\ UNCHANGED <<products, skipBrowser, nreq>>
    /\ UNCHANGED browserVars
    /\ UNCHANGED sideVars

----------------------------------------------------------------------------
(* AmazonScraper: extraction and the fallback chain *)

maxScrollAttempts == 6

\* what one page.evaluate of a round can find in the current view
Views == { SubSeq(PageItems, 1, n) : n \in 0..Len(PageItems) }

\* a loop test without the cap on the rounds
ScrollContinuesUncapped(len, attempts, target) == len < target

\* while (allProducts.length < targetProducts && scrollAttempts < maxScrollAttempts)
ScrollContinues(len, attempts, target) ==
    len < target /\ attempts < maxScrollAttempts

RECURSIVE ScrollResults(_, _, _)
\* AmazonScraper.scrapeTrendingProducts, the while loop: every round pushes
\* all products of the view; the set of allProducts it can end with
ScrollResults(allProducts, scrollAttempts, targetProducts) ==
    IF ScrollContinues(Len(allProducts), scrollAttempts, targetProducts)
    THEN UNION { ScrollResults(allProducts \o currentProducts,
                               scrollAttempts + 1, targetProducts)
                 : currentProducts \in Views }
    ELSE {allProducts}

\* the lists scrapeTrendingProducts(limit) can return
scrapeTrendingProducts(limit) ==
    { Slice(allProducts, limit) : allProducts \in ScrollResults(<<>>, 0, Min(limit, 50)) }

\* the lists scrapeWithHttpOnly(limit) can return: the first pattern that
\* matches yields between one and limit titles
scrapeWithHttpOnly(limit) ==
    { Slice(HttpItems, n) : n \in 1..Min(limit, Len(HttpItems)) }

Return(list, tier) == [kind |-> "return", list |-> list, tier |-> tier]
Throw == [kind |-> "throw", list |-> <<>>, tier |-> "none"]

\* getTrendingProducts: return await this.scrapeTrendingProducts(...)
OnBrowserResult(list) == Return(list, "tier1")

\* getTrendingProducts: return await this.scrapeWithHttpOnly(limit)
OnHttpResult(list) == Return(list, "tier2")

\* a catch (httpError) that lets the error out of getTrendingProducts
OnHttpErrorRethrow(limit) == Throw

\* getTrendingProducts, catch (httpError): return the sample data
OnHttpError(limit) == Return(getFallbackProducts(limit), "tier4")

\* the route after `await amazonScraper.getTrendingProducts(...)`: a thrown
\* error and an empty list both enter catch (scrapingError)
AfterChain(r, result) ==
    IF result.kind = "throw"
    THEN /\ req' = [r EXCEPT !.failed = @ \cup {"chain"}]
         /\ pc' = "catchUpdate"
    ELSE /\ req' = [r EXCEPT !.scraped = result.list, !.tier = result.tier]
         /\ pc' = IF Len(result.list) > 0 THEN "save" ELSE "catchUpdate"

\* scrapeTrendingProducts: page = await this.createPage()
CreatePage ==
    /\ pc = "createPage"
    /\ LET r == [req EXCEPT !.t1calls = @ + 1]
       IN \/ \* the browser is running or one launch configuration works
             /\ \/ browser # 0 /\ UNCHANGED <<browser, launches>>
                \/ browser = 0 /\ browser' = launches + 1
                               /\ launches' = launches + 1
             /\ \/ /\ pageOpen' = TRUE
                   /\ req' = r
                   /\ pc' = "scrape"
                \/ \* browser.newPage() or the page configuration throws
                   /\ req' = [r EXCEPT !.failed = @ \cup {"browser"}]
                   /\ pc' = "http"
                   /\ UNCHANGED pageOpen
          \/ \* both launch configurations fail
             /\ browser = 0
             /\ req' = [r EXCEPT !.failed = @ \cup {"browser"}]
             /\ pc' = "http"
             /\ UNCHANGED <<browser, launches, pageOpen>>
    /\ UNCHANGED <<products, sessions, response, skipBrowser, nreq, enhBrowser>>
    /\ UNCHANGED sideVars

\* scrapeTrendingProducts from getScrapingUrl to the return statement
Scrape ==
    /\ pc = "scrape"
    /\ \/ \E list \in scrapeTrendingProducts(req.limit) :
             req' = [req EXCEPT !.scraped = list, !.pending = "ok"]
       \/ req' = [req EXCEPT !.pending = "error"]
    /\ pc' = "closePage"
    /\ UNCHANGED <<products, sessions, response, skipBrowser, nreq>>
    /\ UNCHANGED browserVars
    /\ UNCHANGED sideVars

\* scrapeTrendingProducts, finally: await page.close(); then getTrendingProducts
\* returns the list or its catch starts the HTTP tier
ClosePage ==
    /\ pc = "closePage"
    /\ \/ /\ pageOpen' = FALSE
          /\ IF req.pending = "ok"
             THEN AfterChain([req EXCEPT !.pending = "none", !.scraped = <<>>],
                             OnBrowserResult(req.scraped))
             ELSE /\ req' = [req EXCEPT !.pending = "none",
                                        !.failed = @ \cup {"browser"}]
                  /\ pc' = "http"
       \/ \* page.close() throws
          /\ req' = [req EXCEPT !.pending = "none", !.scraped = <<>>,
                                !.failed = @ \cup {"browser"}]
          /\ pc' = "http"
          /\ UNCHANGED pageOpen
    /\ UNCHANGED <<products, sessions, response, skipBrowser, nreq,
                   browser, enhBrowser, launches>>
    /\ UNCHANGED sideVars

\* getTrendingProducts: the HTTP-only tier and, when it throws, the sample data
Http ==
    /\ pc = "http"
    /\ LET r == [req EXCEPT !.t2calls = @ + 1]
       IN \/ \E list \in scrapeWithHttpOnly(req.limit) :
                AfterChain(r, OnHttpResult(list))
          \/ AfterChain([r EXCEPT !.failed = @ \cup {"http"}],
                        OnHttpError(req.limit))
    /\ UNCHANGED <<products, sessions, response, skipBrowser, nreq>>
    /\ UNCHANGED browserVars
    /\ UNCHANGED sideVars

----------------------------------------------------------------------------
(* EnhancedAmazonScraper *)

\* scrapeProductsWithScrolling, page.evaluate: every record carries its
\* data-asin in source, as 'Amazon Best Sellers (Electronics) - ASIN: <asin>'
EnhPageItems ==
    [i \in 1..Len(PageItems) |-> [PageItems[i] EXCEPT !.sourceAsin = PageItems[i].asin]]

\* what one page.evaluate of a round of the enhanced scraper can find
EnhViews == { SubSeq(EnhPageItems, 1, n) : n \in 0..Len(EnhPageItems) }

\* currentProducts.filter(p => !allProducts.some(e => e.title === p.title))
NewProducts(allProducts, currentProducts) ==
    SelectSeq(currentProducts,
              LAMBDA p : \A i \in 1..Len(allProducts) : allProducts[i].title # p.title)

RECURSIVE EnhScrollResults(_, _, _)
\* scrapeProductsWithScrolling, the while loop: the set of allProducts it can
\* end with
EnhScrollResults(allProducts, scrollAttempts, targetProducts) ==
    IF ScrollContinues(Len(allProducts), scrollAttempts, targetProducts)
    THEN UNION { LET newProducts == NewProducts(allProducts, currentProducts)
                     merged == allProducts \o newProducts
                 IN IF Len(merged) >= targetProducts \/ Len(newProducts) = 0
                    THEN {merged}
                    ELSE EnhScrollResults(merged, scrollAttempts + 1, targetProducts)
                 : currentProducts \in EnhViews }
    ELSE {allProducts}

\* the lists scrapeProductsWithScrolling(limit) can return; an empty
\* allProducts makes it throw instead
scrapeProductsWithScrolling(limit) ==
    { Slice(allProducts, Min(limit, 50)) :
        allProducts \in { a \in EnhScrollResults(<<>>, 0, Min(limit, 50)) : Len(a) > 0 } }

\* the route's catch (scrapingError) after the enhanced scraper threw
EnhFailed(r) ==
    /\ req' = [r EXCEPT !.pending = "none", !.scraped = <<>>,
                        !.failed = @ \cup {"enhanced"}]
    /\ pc' = "catchUpdate"

\* scrapeProductsWithScrolling: page = await this.createPage()
EnhCreatePage ==
    /\ pc = "enhCreatePage"
    /\ LET r == [req EXCEPT !.t1calls = @ + 1]
       IN \/ /\ \/ enhBrowser # 0 /\ UNCHANGED <<enhBrowser, launches>>
                \/ enhBrowser = 0 /\ enhBrowser' = launches + 1
                                  /\ launches' = launches + 1
             /\ \/ /\ pageOpen' = TRUE
                   /\ req' = r
                   /\ pc' = "enhScrape"
                \/ /\ EnhFailed(r)
                   /\ UNCHANGED pageOpen
          \/ \* puppeteer.launch throws
             /\ enhBrowser = 0
             /\ EnhFailed(r)
             /\ UNCHANGED <<enhBrowser, launches, pageOpen>>
    /\ UNCHANGED <<products, sessions, response, skipBrowser, nreq, browser>>
    /\ UNCHANGED sideVars

\* scrapeProductsWithScrolling from page.goto to the return or throw
EnhScrape ==
    /\ pc = "enhScrape"
    /\ \/ \E list \in scrapeProductsWithScrolling(req.limit) :
             req' = [req EXCEPT !.scraped = list, !.pending = "ok"]
       \/ req' = [req EXCEPT !.pending = "error"]
    /\ pc' = "enhClosePage"
    /\ UNCHANGED <<products, sessions, response, skipBrowser, nreq>>
    /\ UNCHANGED browserVars
    /\ UNCHANGED sideVars

\* scrapeProductsWithScrolling, finally: await page.close()
EnhClosePage ==
    /\ pc = "enhClosePage"
    /\ \/ /\ pageOpen' = FALSE
          /\ IF req.pending = "ok"
             THEN /\ req' = [req EXCEPT !.pending = "none", !.tier = "tier1"]
                  /\ pc' = "save"
             ELSE EnhFailed(req)
       \/ /\ EnhFailed(req)
          /\ UNCHANGED pageOpen
    /\ UNCHANGED <<products, sessions, response, skipBrowser, nreq,
                   browser, enhBrowser, launches>>
    /\ UNCHANGED sideVars

----------------------------------------------------------------------------
(* The handlers after the extraction *)

CloseSession(id, success, found) ==
    [sessions EXCEPT ![id] = [@ EXCEPT !.completed = TRUE, !.success = success,
                                       !.found = found]]

\* savedCount = await dbService.saveProducts(scrapedProducts, category)
SaveProducts ==
    /\ pc = "save"
    /\ \/ /\ products' = saveProducts(products, req.scraped, req.category)
          /\ req' = [req EXCEPT !.savedCount = Len(req.scraped)]
          /\ pc' = "updateSession"
       \/ \* ROLLBACK, then the error reaches catch (scrapingError)
          /\ req' = Fail("save")
          /\ pc' = "catchUpdate"
          /\ UNCHANGED products
    /\ UNCHANGED <<sessions, response, skipBrowser, nreq>>
    /\ UNCHANGED browserVars
    /\ UNCHANGED sideVars

\* await dbService.updateScrapingSession(sessionId, true, savedCount)
UpdateSession ==
    /\ pc = "updateSession"
    /\ \/ /\ sessions' = CloseSession(req.sessionId, TRUE, req.savedCount)
          /\ Respond(req, 200, req.scraped,
                     IF req.endpoint = "enhanced" THEN EnhLiveLabel ELSE LiveLabel)
       \/ /\ req' = Fail("updateSession")
          /\ pc' = "catchUpdate"
          /\ UNCHANGED <<sessions, response>>
    /\ UNCHANGED <<products, skipBrowser, nreq>>
    /\ UNCHANGED browserVars
    /\ UNCHANGED sideVars

\* catch (scrapingError): updateScrapingSession(sessionId, false, 0, message),
\* then /products picks its fallback
CatchUpdate ==
    /\ pc = "catchUpdate"
    /\ \/ /\ sessions' = CloseSession(req.sessionId, FALSE, 0)
          /\ IF req.endpoint = "enhanced"
             THEN /\ pc' = "enhFallback"
                  /\ UNCHANGED <<req, response>>
             ELSE IF Len(req.dbProducts) = 0
             THEN Respond(req, 200, getFallbackProducts(req.limit), StaticLabel)
             ELSE Respond(Cached(req, req.category), 200, req.dbProducts,
                          CacheFallbackLabel)
       \/ /\ Respond500("catchUpdate")
          /\ UNCHANGED sessions
    /\ UNCHANGED <<products, skipBrowser, nreq>>
    /\ UNCHANGED browserVars
    /\ UNCHANGED sideVars

\* /products-enhanced: freshDataCheck = await dbService.hasFreshData(...)
HasFreshData ==
    /\ pc = "hasFreshData"
    /\ \/ LET chk == hasFreshData(products, req.category, CACHE_MAX_AGE_HOURS)
          IN /\ pc' = IF chk.hasFresh /\ chk.count >= req.limit
                      THEN "enhGetProducts" ELSE "createSession"
             /\ UNCHANGED <<req, response>>
       \/ Respond500("hasFreshData")
    /\ UNCHANGED <<products, sessions, skipBrowser, nreq>>
    /\ UNCHANGED browserVars
    /\ UNCHANGED sideVars

\* /products-enhanced: products = await dbService.getProducts(...) on the
\* fresh-cache path
EnhGetProducts ==
    /\ pc = "enhGetProducts"
    /\ \/ LET rows == getProducts(products, req.limit, req.category,
                                  CACHE_MAX_AGE_HOURS)
          IN IF Len(rows) = 0
             THEN /\ pc' = "createSession"
                  /\ UNCHANGED <<req, response>>
             ELSE Respond(Cached(req, req.category), 200, rows, EnhCacheLabel)
       \/ Respond500("getProducts")
    /\ UNCHANGED <<products, sessions, skipBrowser, nreq>>
    /\ UNCHANGED browserVars
    /\ UNCHANGED sideVars

\* /products-enhanced, catch: getProducts(productLimit, category, 72)
EnhFallback ==
    /\ pc = "enhFallback"
    /\ \/ LET rows == getProducts(products, req.limit, req.category,
                                  ENHANCED_FALLBACK_HOURS)
          IN IF Len(rows) > 0
             THEN Respond(Cached(req, req.category), 200, rows, EnhFallbackLabel)
             ELSE /\ pc' = "enhRegular"
                  /\ UNCHANGED <<req, response>>
       \/ Respond500("enhFallback")
    /\ UNCHANGED <<products, sessions, skipBrowser, nreq>>
    /\ UNCHANGED browserVars
    /\ UNCHANGED sideVars

\* /products-enhanced, catch: getProducts(productLimit, 'electronics', 72),
\* then the sample data
EnhRegular ==
    /\ pc = "enhRegular"
    /\ \/ LET rows == getProducts(products, req.limit, "electronics",
                                  ENHANCED_FALLBACK_HOURS)
          IN IF Len(rows) > 0
             THEN Respond(Cached(req, "electronics"), 200, rows, EnhRegularLabel)
             ELSE Respond(req, 200, getFallbackProducts(req.limit), EnhStaticLabel)
       \/ Respond500("enhRegular")
    /\ UNCHANGED <<products, sessions, skipBrowser, nreq>>
    /\ UNCHANGED browserVars
    /\ UNCHANGED sideVars

----------------------------------------------------------------------------
(* The request specification *)

NoResult == [kind |-> "none", value |-> <<>>, error |-> "none"]

RetryIdle ==
    /\ attempt = 0 /\ rpc = "off" /\ calls = <<>>
    /\ waits = <<>> /\ lastError = "none" /\ rresult = NoResult

\* no database client other than the request's own, and nothing read yet
NoTx == [state |-> "idle", list |-> <<>>, category |-> "", writes |-> <<>>,
         savedCount |-> 0, overlap |-> FALSE]
NoRead == [op |-> "none", category |-> "", maxAgeHours |-> 0, limit |-> 0,
           rows |-> <<>>, hasFresh |-> FALSE, count |-> 0]
StoreIdle ==
    /\ tx = [c \in Clients |-> NoTx] /\ log = <<>>
    /\ lastRead = NoRead /\ nsaves = 0

\* no extraction loop running on its own
NoScroll == [scraper |-> "none", pc |-> "off", allProducts |-> <<>>,
             scrollAttempts |-> 0, targetProducts |-> 0, rounds |-> 0,
             yields |-> 0, result |-> <<>>]
ScrollIdle == scroll = NoScroll

\* no POST /scraper-config answered yet
NoConfig == [previousMode |-> "", newMode |-> "", was |-> ""]

\* no caller of the scrapers other than the request's own
NoUrl == [host |-> <<>>, path |-> <<>>]
NoAcq == [pc |-> "idle", scraper |-> "none", kind |-> "none", url |-> NoUrl,
          local |-> FALSE, b |-> 0, own |-> {}, attempts |-> 0,
          errors |-> <<>>, pages |-> 0, closed |-> 0, navs |-> 0,
          since |-> {}, stale |-> FALSE]
LaunchIdle ==
    /\ procs = {} /\ useLocalBrowser = TRUE
    /\ acq = [c \in Callers |-> NoAcq]
    /\ closing = {} /\ retired = {} /\ ncalls = 0
    /\ cfgResp = NoConfig

\* no database operation running on its own, every client in the pool
NoConn == [op |-> "none", pc |-> "idle", step |-> 0, held |-> FALSE]
PoolIdle == conns = [c \in Callers |-> NoConn] /\ checkedOut = 0

\* no tier URL and no candidate element under study
NoTarget == [pc |-> "off", category |-> "", metadata |-> {},
             tier1Url |-> "", tier2Url |-> ""]
NoElement == [titleOk |-> FALSE, dataAsin |-> "", href |-> NoAsin,
              badge |-> <<>>]
NoExtract == [pc |-> "off", scraper |-> "", i |-> 0, element |-> NoElement,
              results |-> <<>>, rows |-> <<>>]
ProbeIdle == tierUrls = NoTarget /\ extract = NoExtract

Init ==
    /\ products = <<>>
    /\ sessions = <<>>
    /\ pc = "idle"
    /\ req = InitReq
    /\ response = NoResponse
    /\ browser = 0
    /\ enhBrowser = 0
    /\ launches = 0
    /\ pageOpen = FALSE
    /\ skipBrowser \in BOOLEAN
    /\ nreq = 0
    /\ RetryIdle
    /\ StoreIdle
    /\ ScrollIdle
    /\ LaunchIdle
    /\ PoolIdle
    /\ ProbeIdle

Next ==
    \/ Tick
    \/ StartRequest
    \/ GetProducts
    \/ CreateScrapingSession
    \/ CreatePage
    \/ Scrape
    \/ ClosePage
    \/ Http
    \/ EnhCreatePage
    \/ EnhScrape
    \/ EnhClosePage
    \/ SaveProducts
    \/ UpdateSession
    \/ CatchUpdate
    \/ HasFreshData
    \/ EnhGetProducts
    \/ EnhFallback
    \/ EnhRegular

Spec == Init /\ [][Next]_vars

----------------------------------------------------------------------------
(* retryOperation (identical in both AmazonScraper versions) around the     *)
(* browser extraction that the earlier AmazonScraper.scrapeTrendingProducts *)
(* passes to it.                                                            *)

\* Math.pow(2, n)
RECURSIVE Pow2(_)
Pow2(n) == IF n = 0 THEN 1 ELSE 2 * Pow2(n - 1)

\* const backoffDelay = this.retryDelay * Math.pow(2, attempt - 1)
backoffDelay(a) == retryDelay * Pow2(a - 1)

\* a backoff that also sleeps after the final attempt
ShouldWaitAlways(a) == a <= maxRetries

\* if (attempt < this.maxRetries): sleep before the next attempt
ShouldWait(a) == a < maxRetries

\* for (...; attempt <= this.maxRetries; ...)
LoopContinues(a) == a <= maxRetries

\* a catch block that keeps the first error it saw
CatchFirstError(previous, error) == IF previous = "none" THEN error ELSE previous

\* catch (error) { lastError = error as Error; ... }
CatchError(previous, error) == error

\* what the earlier extraction returns: the source text carries the ASIN
EarlierItems ==
    << [Product(1, "T1", NoAsin, "A1", "browser") EXCEPT !.sourceAsin = "A1"],
       [Product(2, "T2", NoAsin, NoAsin, "browser") EXCEPT !.sourceAsin = ""] >>

EarlierResults == { SubSeq(EarlierItems, 1, n) : n \in 1..Len(EarlierItems) }

\* the call being made: the last entry of calls
ThisCall == calls[Len(calls)]
SetThisCall(c) == [calls EXCEPT ![Len(calls)] = c]

\* retryOperation, try: return await operation()
RetryCall ==
    /\ rpc = "call"
    /\ UNCHANGED <<storeVars, scrollVars, launchVars, poolVars, probeVars>>
    /\ calls' = Append(calls, [attempt |-> attempt, browser |-> 0,
                               outcome |-> "running", value |-> <<>>,
                               error |-> "none"])
    /\ rpc' = "opCreatePage"
    /\ UNCHANGED <<attempt, waits, lastError, rresult>>
    /\ UNCHANGED <<products, sessions, pc, req, response, skipBrowser, nreq>>
    /\ UNCHANGED browserVars

\* operation() threw: the catch block of retryOperation
OpFailed(c, error) ==
    /\ calls' = SetThisCall([c EXCEPT !.outcome = "error", !.error = error])
    /\ lastError' = CatchError(lastError, error)
    /\ rpc' = IF ShouldWait(attempt) THEN "sleep" ELSE "next"
    /\ UNCHANGED <<attempt, waits, rresult>>

\* operation() returned: retryOperation returns its value
OpReturned(c, value) ==
    /\ calls' = SetThisCall([c EXCEPT !.outcome = "ok", !.value = value])
    /\ rresult' = [kind |-> "return", value |-> value, error |-> "none"]
    /\ rpc' = "done"
    /\ UNCHANGED <<attempt, waits, lastError>>

\* the operation (earlier scrapeTrendingProducts): page = await this.createPage()
OpCreatePage ==
    /\ rpc = "opCreatePage"
    /\ UNCHANGED <<storeVars, scrollVars, launchVars, poolVars, probeVars>>
    /\ \/ \* initBrowser returns the running browser or launches one
          /\ \/ browser # 0 /\ UNCHANGED <<browser, launches>>
             \/ browser = 0 /\ browser' = launches + 1
                            /\ launches' = launches + 1
          /\ \/ /\ pageOpen' = TRUE
                /\ calls' = SetThisCall([ThisCall EXCEPT !.browser = browser'])
                /\ rpc' = "opScrape"
                /\ UNCHANGED <<attempt, waits, lastError, rresult>>
             \/ /\ OpFailed([ThisCall EXCEPT !.browser = browser'], "newPage")
                /\ UNCHANGED pageOpen
       \/ /\ browser = 0
          /\ OpFailed(ThisCall, "launch")
          /\ UNCHANGED <<browser, launches, pageOpen>>
    /\ UNCHANGED <<products, sessions, pc, req, response, skipBrowser, nreq,
                   enhBrowser>>

\* the operation from page.goto to its return or throw
OpScrape ==
    /\ rpc = "opScrape"
    /\ UNCHANGED <<storeVars, scrollVars, launchVars, poolVars, probeVars>>
    /\ \/ \E list \in EarlierResults :
             calls' = SetThisCall([ThisCall EXCEPT !.value = list])
       \/ \E error \in {"navigation", "noProducts"} :
             calls' = SetThisCall([ThisCall EXCEPT !.error = error])
    /\ rpc' = "opClose"
    /\ UNCHANGED <<attempt, waits, lastError, rresult>>
    /\ UNCHANGED <<products, sessions, pc, req, response, skipBrowser, nreq>>
    /\ UNCHANGED browserVars

\* the operation, finally: await page.close()
OpClose ==
    /\ rpc = "opClose"
    /\ UNCHANGED <<storeVars, scrollVars, launchVars, poolVars, probeVars>>
    /\ \/ /\ pageOpen' = FALSE
          /\ IF ThisCall.error = "none"
             THEN OpReturned(ThisCall, ThisCall.value)
             ELSE OpFailed(ThisCall, ThisCall.error)
       \/ /\ OpFailed([ThisCall EXCEPT !.value = <<>>], "pageClose")
          /\ UNCHANGED pageOpen
    /\ UNCHANGED <<products, sessions, pc, req, response, skipBrowser, nreq,
                   browser, enhBrowser, launches>>

\* retryOperation, catch: await delay(backoffDelay)
RetrySleep ==
    /\ rpc = "sleep"
    /\ UNCHANGED <<storeVars, scrollVars, launchVars, poolVars, probeVars>>
    /\ waits' = Append(waits, [after |-> Len(calls), ms |-> backoffDelay(attempt)])
    /\ rpc' = "next"
    /\ UNCHANGED <<attempt, calls, lastError, rresult>>
    /\ UNCHANGED <<products, sessions, pc, req, response, skipBrowser, nreq>>
    /\ UNCHANGED browserVars

\* retryOperation: attempt++, the loop test, and throw lastError after the loop
RetryNext ==
    /\ rpc = "next"
    /\ UNCHANGED <<storeVars, scrollVars, launchVars, poolVars, probeVars>>
    /\ attempt' = attempt + 1
    /\ IF LoopContinues(attempt + 1)
       THEN /\ rpc' = "call"
            /\ UNCHANGED rresult
       ELSE /\ rpc' = "done"
            /\ rresult' = [kind |-> "throw", value |-> <<>>, error |-> lastError]
    /\ UNCHANGED <<calls, waits, lastError>>
    /\ UNCHANGED <<products, sessions, pc, req, response, skipBrowser, nreq>>
    /\ UNCHANGED browserVars

\* retryOperation is entered with attempt = 1; the browser singleton may be
\* running already from an earlier call
InitRetry ==
    /\ products = <<>>
    /\ sessions = <<>>
    /\ pc = "idle"
    /\ req = InitReq
    /\ response = NoResponse
    /\ \E running \in BOOLEAN :
          /\ browser = IF running THEN 1 ELSE 0
          /\ launches = IF running THEN 1 ELSE 0
    /\ enhBrowser = 0
    /\ pageOpen = FALSE
    /\ skipBrowser = FALSE
    /\ nreq = 0
    /\ attempt = 1
    /\ rpc = "call"
    /\ calls = <<>>
    /\ waits = <<>>
    /\ lastError = "none"
    /\ rresult = NoResult
    /\ StoreIdle
    /\ ScrollIdle
    /\ LaunchIdle
    /\ PoolIdle
    /\ ProbeIdle

NextRetry ==
    \/ RetryCall
    \/ OpCreatePage
    \/ OpScrape
    \/ OpClose
    \/ RetrySleep
    \/ RetryNext

SpecRetry == InitRetry /\ [][NextRetry]_vars

----------------------------------------------------------------------------
(* DatabaseService on its own: the clients of the connection pool run       *)
(* saveProducts concurrently, one statement at a time, while getProducts    *)
(* and hasFreshData read the committed rows.                                *)

DetailCategory == "product-details"
StoreCategories == Categories \cup {EnhancedCategory, DetailCategory}

\* the optional keys scrapeProductDetails adds when the page shows them
DetailFields == {"availability", "reviewCount", "brand", "features"}

\* scrapeProductDetails: rank '1', the page's link, the ASIN in source, and
\* the details of the page
DetailItem ==
    [Product(1, "D1", "A1", "A1", "detail") EXCEPT !.sourceAsin = "A1",
                                                   !.extra = DetailFields,
                                                   !.rankIsString = TRUE,
                                                   !.rankText = <<"1">>]

\* maxAgeHours as the routes pass it
ReadWindows == {CACHE_MAX_AGE_HOURS, ENHANCED_FALLBACK_HOURS}

\* the saveProducts calls of the routes: a non-empty list and its category
StoreCalls ==
    UNION { [list : (scrapeTrendingProducts(l) \cup scrapeWithHttpOnly(l)
                        \cup {getFallbackProducts(l)}) \ {<<>>},
             category : Categories] : l \in Limits }
    \cup UNION { [list : scrapeProductsWithScrolling(l),
                  category : {EnhancedCategory}] : l \in Limits }
    \cup [list : {<<DetailItem>>}, category : {DetailCategory}]

handlerVars == <<sessions, pc, req, response, skipBrowser, nreq>>

\* the unique index on asin makes a statement wait while another open
\* transaction holds an uncommitted row of the same asin
Blocked(c, row) ==
    /\ row.asin # NoAsin
    /\ \E d \in Clients \ {c} :
          /\ tx[d].state = "open"
          /\ \E i \in 1..Len(tx[d].writes) : tx[d].writes[i].asin = row.asin

RECURSIVE Publish(_, _)
\* COMMIT: the statements of the transaction take effect, in order
Publish(table, writes) ==
    IF writes = <<>> THEN table
    ELSE Publish(UpsertRow(table, Head(writes)), Tail(writes))

\* a failure handling that leaves the statements already run in the table
RollbackPartial(table, writes) == Publish(table, writes)

\* catch: await client.query('ROLLBACK')
Rollback(table, writes) == table

\* the clock, between transactions
StoreTick ==
    /\ \A c \in Clients : tx[c].state # "open"
    /\ \E i \in 1..Len(products) : products[i].age < MaxAge
    /\ products' = OlderAll(products)
    /\ log' = OlderAll(log)
    /\ lastRead' = NoRead
    /\ UNCHANGED <<tx, nsaves>>
    /\ UNCHANGED <<handlerVars, browserVars, retryVars, scrollVars, launchVars, poolVars, probeVars>>

\* saveProducts: client = await pool.connect(); await client.query('BEGIN')
StoreBegin ==
    /\ nsaves < MaxSaves
    /\ \E c \in Clients, call \in StoreCalls :
          \* the pool hands out its first free client
          /\ tx[c].state # "open"
          /\ \A d \in 1..(c - 1) : tx[d].state = "open"
          /\ tx' = [tx EXCEPT ![c] = [state |-> "open", list |-> call.list,
                                      category |-> call.category,
                                      writes |-> <<>>, savedCount |-> 0,
                                      \* another saveProducts is under way
                                      overlap |-> \E d \in Clients :
                                                     tx[d].state = "open"]]
    /\ nsaves' = nsaves + 1
    /\ UNCHANGED <<products, log, lastRead>>
    /\ UNCHANGED <<handlerVars, browserVars, retryVars, scrollVars, launchVars, poolVars, probeVars>>

\* saveProducts, one turn of the for loop: the INSERT ... ON CONFLICT
StoreUpsert ==
    /\ \E c \in Clients :
          /\ tx[c].state = "open"
          /\ tx[c].savedCount < Len(tx[c].list)
          /\ LET row == convertToDbProduct(tx[c].list[tx[c].savedCount + 1],
                                           tx[c].category)
             IN /\ ~Blocked(c, row)
                /\ tx' = [tx EXCEPT ![c].writes = Append(@, row),
                                    ![c].savedCount = @ + 1]
    /\ UNCHANGED <<products, log, lastRead, nsaves>>
    /\ UNCHANGED <<handlerVars, browserVars, retryVars, scrollVars, launchVars, poolVars, probeVars>>

\* saveProducts: await client.query('COMMIT'); return savedCount
StoreCommit ==
    /\ \E c \in Clients :
          /\ tx[c].state = "open"
          /\ tx[c].savedCount = Len(tx[c].list)
          /\ products' = Publish(products, tx[c].writes)
          /\ log' = log \o tx[c].writes
          /\ tx' = [tx EXCEPT ![c].state = "committed", ![c].writes = <<>>]
    /\ UNCHANGED <<lastRead, nsaves>>
    /\ UNCHANGED <<handlerVars, browserVars, retryVars, scrollVars, launchVars, poolVars, probeVars>>

\* saveProducts: a statement (BEGIN, an INSERT, COMMIT) rejects; the catch
\* block rolls back and rethrows
StoreFail ==
    /\ \E c \in Clients :
          /\ tx[c].state = "open"
          /\ products' = Rollback(products, tx[c].writes)
          /\ tx' = [tx EXCEPT ![c].state = "failed", ![c].writes = <<>>]
    /\ UNCHANGED <<log, lastRead, nsaves>>
    /\ UNCHANGED <<handlerVars, browserVars, retryVars, scrollVars, launchVars, poolVars, probeVars>>

\* saveProducts by a single client, from BEGIN to COMMIT
StoreSave ==
    /\ nsaves < MaxSaves
    /\ \E call \in StoreCalls :
          products' = saveProducts(products, call.list, call.category)
    /\ nsaves' = nsaves + 1
    /\ lastRead' = NoRead
    /\ UNCHANGED <<tx, log>>
    /\ UNCHANGED <<handlerVars, browserVars, retryVars, scrollVars, launchVars, poolVars, probeVars>>

\* getProducts(limit, category, maxAgeHours)
StoreGetProducts ==
    /\ \E category \in StoreCategories, maxAgeHours \in ReadWindows,
          limit \in Limits :
          lastRead' = [op |-> "getProducts", category |-> category,
                       maxAgeHours |-> maxAgeHours, limit |-> limit,
                       rows |-> getProducts(products, limit, category, maxAgeHours),
                       hasFresh |-> FALSE, count |-> 0]
    /\ UNCHANGED <<products, tx, log, nsaves>>
    /\ UNCHANGED <<handlerVars, browserVars, retryVars, scrollVars, launchVars, poolVars, probeVars>>

\* SELECT * FROM products WHERE product_url = $1 AND scraped_at > NOW() -
\* INTERVAL ... ORDER BY scraped_at DESC LIMIT 1: the answers the query can
\* give, <<>> for null
getProductByUrl(table, productUrl, maxAgeHours) ==
    LET hits == { i \in 1..Len(table) :
                    table[i].link = productUrl /\ table[i].age < maxAgeHours }
        newest == { i \in hits : \A j \in hits : table[i].age <= table[j].age }
    IN IF hits = {} THEN {<<>>}
       ELSE { <<convertFromDbProduct(table[i])>> : i \in newest }

\* /product/details: getProductByUrl(url, maxAgeHours)
StoreGetProductByUrl ==
    /\ \E rows \in getProductByUrl(products, DetailItem.link, CACHE_MAX_AGE_HOURS) :
          lastRead' = [op |-> "getProductByUrl", category |-> DetailCategory,
                       maxAgeHours |-> CACHE_MAX_AGE_HOURS, limit |-> 1,
                       rows |-> rows, hasFresh |-> FALSE, count |-> 0]
    /\ UNCHANGED <<products, tx, log, nsaves>>
    /\ UNCHANGED <<handlerVars, browserVars, retryVars, scrollVars, launchVars, poolVars, probeVars>>

\* hasFreshData(category, maxAgeHours)
StoreHasFreshData ==
    /\ \E category \in StoreCategories, maxAgeHours \in ReadWindows :
          LET chk == hasFreshData(products, category, maxAgeHours)
          IN lastRead' = [op |-> "hasFreshData", category |-> category,
                          maxAgeHours |-> maxAgeHours, limit |-> 0,
                          rows |-> <<>>,
                          hasFresh |-> chk.hasFresh, count |-> chk.count]
    /\ UNCHANGED <<products, tx, log, nsaves>>
    /\ UNCHANGED <<handlerVars, browserVars, retryVars, scrollVars, launchVars, poolVars, probeVars>>

InitStore ==
    /\ products = <<>>
    /\ sessions = <<>>
    /\ pc = "idle"
    /\ req = InitReq
    /\ response = NoResponse
    /\ browser = 0
    /\ enhBrowser = 0
    /\ launches = 0
    /\ pageOpen = FALSE
    /\ skipBrowser = FALSE
    /\ nreq = 0
    /\ RetryIdle
    /\ StoreIdle
    /\ ScrollIdle
    /\ LaunchIdle
    /\ PoolIdle
    /\ ProbeIdle

NextStore ==
    \/ StoreTick
    \/ StoreBegin
    \/ StoreUpsert
    \/ StoreCommit
    \/ StoreFail

SpecStore == InitStore /\ [][NextStore]_vars

\* the cache as the routes read it: saves, the clock, and reads
NextRead ==
    \/ StoreTick
    \/ StoreSave
    \/ StoreGetProducts
    \/ StoreGetProductByUrl
    \/ StoreHasFreshData

SpecRead == InitStore /\ [][NextRead]_vars

----------------------------------------------------------------------------
(* The extraction loops on their own, one round at a time: the while loop   *)
(* of AmazonScraper.scrapeTrendingProducts ("regular") and of               *)
(* EnhancedAmazonScraper.scrapeProductsWithScrolling ("enhanced").          *)

\* the records of a long page; the title is the position
ScrollItems == [i \in 1..MaxItems |-> Product(i, i, NoAsin, NoAsin, "browser")]

\* what page.evaluate finds in a round: the records revealed so far
ScrollViews == { SubSeq(ScrollItems, 1, n) : n \in 0..MaxItems }

\* variant: the loop returns the last targetProducts records it accumulated
ScrollReturnTail(sc, allProducts) ==
    [sc EXCEPT !.pc = "returned", !.allProducts = allProducts,
               !.result = IF Len(allProducts) > sc.targetProducts
                          THEN SubSeq(allProducts,
                                      Len(allProducts) - sc.targetProducts + 1,
                                      Len(allProducts))
                          ELSE allProducts]

\* the loop is left: return allProducts.slice(0, targetProducts)
ScrollReturn(sc, allProducts) ==
    [sc EXCEPT !.pc = "returned", !.allProducts = allProducts,
               !.result = Slice(allProducts, sc.targetProducts)]

\* scrapeTrendingProducts: one turn of the while loop and the next loop test
ScrollRound ==
    /\ scroll.scraper = "regular"
    /\ scroll.pc = "loop"
    /\ \/ \E currentProducts \in ScrollViews :
             LET allProducts == scroll.allProducts \o currentProducts
                 sc == [scroll EXCEPT
                           !.rounds = @ + 1,
                           !.yields = IF Len(currentProducts) > 0 THEN @ + 1 ELSE @,
                           !.scrollAttempts = @ + 1]
             IN scroll' = IF ScrollContinues(Len(allProducts), sc.scrollAttempts,
                                              sc.targetProducts)
                          THEN [sc EXCEPT !.allProducts = allProducts]
                          ELSE ScrollReturn(sc, allProducts)
       \/ \* page.evaluate rejects
          scroll' = [scroll EXCEPT !.pc = "threw", !.rounds = @ + 1]
    /\ UNCHANGED <<products, handlerVars, browserVars, retryVars, storeVars, launchVars, poolVars, probeVars>>

\* scrapeProductsWithScrolling: one turn of the while loop, its break, the
\* next loop test and the throw on an empty allProducts
EnhScrollRound ==
    /\ scroll.scraper = "enhanced"
    /\ scroll.pc = "loop"
    /\ \/ \E currentProducts \in ScrollViews :
             LET newProducts == NewProducts(scroll.allProducts, currentProducts)
                 allProducts == scroll.allProducts \o newProducts
                 sc == [scroll EXCEPT
                           !.rounds = @ + 1,
                           !.yields = IF Len(newProducts) > 0 THEN @ + 1 ELSE @]
                 left == IF Len(allProducts) = 0
                         THEN [sc EXCEPT !.pc = "threw"]
                         ELSE ScrollReturn(sc, allProducts)
             IN scroll' =
                  IF Len(allProducts) >= sc.targetProducts \/ Len(newProducts) = 0
                  THEN left
                  ELSE IF ScrollContinues(Len(allProducts), sc.scrollAttempts + 1,
                                          sc.targetProducts)
                  THEN [sc EXCEPT !.allProducts = allProducts,
                                  !.scrollAttempts = @ + 1]
                  ELSE [left EXCEPT !.scrollAttempts = @ + 1]
       \/ scroll' = [scroll EXCEPT !.pc = "threw", !.rounds = @ + 1]
    /\ UNCHANGED <<products, handlerVars, browserVars, retryVars, storeVars, launchVars, poolVars, probeVars>>

\* a scraper enters its loop with targetProducts = Math.min(limit, 50)
InitScroll ==
    /\ products = <<>>
    /\ sessions = <<>>
    /\ pc = "idle"
    /\ req = InitReq
    /\ response = NoResponse
    /\ browser = 0
    /\ enhBrowser = 0
    /\ launches = 0
    /\ pageOpen = FALSE
    /\ skipBrowser = FALSE
    /\ nreq = 0
    /\ RetryIdle
    /\ StoreIdle
    /\ LaunchIdle
    /\ PoolIdle
    /\ ProbeIdle
    /\ \E scraper \in {"regular", "enhanced"}, target \in 1..MaxTarget :
          scroll = [NoScroll EXCEPT !.scraper = scraper, !.pc = "loop",
                                    !.targetProducts = target]

NextScroll ==
    \/ ScrollRound
    \/ EnhScrollRound

SpecScroll == InitScroll /\ [][NextScroll]_vars

\* ---------------------------------------------------------------------
\* The browser singletons under concurrent callers: initBrowser one await
\* at a time, createPage, the page's navigation and close, the mode switch
\* and closeBrowser.

\* isValidAmazonUrl: the domains it accepts (hostname as its labels)
validDomains ==
    { <<"amazon", "com">>, <<"amazon", "co", "uk">>, <<"amazon", "ca">>,
      <<"amazon", "de">>, <<"amazon", "fr">>, <<"amazon", "it">>,
      <<"amazon", "es">>, <<"amazon", "co", "jp">>, <<"amazon", "in">>,
      <<"amazon", "com", "au">>, <<"amazon", "com", "br">>,
      <<"amazon", "com", "mx">> }

\* urlObj.hostname === domain || urlObj.hostname === `www.${domain}`
isAmazonDomain(host) ==
    \/ host \in validDomains
    \/ Len(host) > 0 /\ Head(host) = "www" /\ Tail(host) \in validDomains

\* pathname.includes('/dp/') || includes('/gp/product/') || includes('/product/')
\* on a pathname given as its segments: a segment followed by '/' is one
\* that is not the last
hasProductPath(path) ==
    \/ \E i \in 1..(Len(path) - 1) : path[i] = "dp"
    \/ \E i \in 1..(Len(path) - 2) : path[i] = "gp" /\ path[i + 1] = "product"
    \/ \E i \in 1..(Len(path) - 1) : path[i] = "product"

\* variant: the validation looks at the domain only
isValidAmazonUrlDomainOnly(url) == isAmazonDomain(url.host)

isValidAmazonUrl(url) == isAmazonDomain(url.host) /\ hasProductPath(url.path)

\* the URLs scrapeProductDetails is called with
DetailUrls ==
    [host : { <<"www", "amazon", "com">>, <<"example", "com">> },
     path : { <<"dp", "B000000001">>, <<"not-a-product">> }]

\* a browser process: which singleton launched it and with which headless flag
Proc(id, scraper, headless) == [id |-> id, scraper |-> scraper, headless |-> headless]
Alive(id) == \E p \in procs : p.id = id

\* this.browser of the scraper a call runs in
BrowserOf(scraper) == IF scraper = "regular" THEN browser ELSE enhBrowser

\* an earlier call already failed to open a page in browser id because its
\* process is gone
KnownDead(id) ==
    /\ id # 0 /\ ~Alive(id)
    /\ \E d \in Callers : acq[d].pc = "pageFailed" /\ acq[d].b = id

BsTerminal == {"idle", "released", "failed", "threw", "pageFailed", "navFailed"}

\* what the scraper calls leave alone
restVars == <<products, handlerVars, pageOpen, retryVars, storeVars, scrollVars,
              poolVars, probeVars>>

\* createPage / scrapeProductDetails is called by the first caller that is free:
\* the URL check of a detail
\* call, then initBrowser up to its first await
BsAcquire(c) ==
    /\ acq[c].pc \in BsTerminal
    /\ \A d \in 1..(c - 1) : acq[d].pc \notin BsTerminal
    /\ ncalls < MaxCalls
    /\ ncalls' = ncalls + 1
    /\ \E call \in ({"regular", "enhanced"} \X {"list"} \X {NoUrl})
                   \cup ({"regular"} \X {"detail"} \X DetailUrls) :
          LET a == [NoAcq EXCEPT !.scraper = call[1], !.kind = call[2],
                                 !.url = call[3], !.since = retired,
                                 !.local = useLocalBrowser,
                                 !.stale = KnownDead(BrowserOf(call[1]))]
          IN acq' = [acq EXCEPT ![c] =
                IF a.kind = "detail" /\ ~isValidAmazonUrl(a.url)
                THEN [a EXCEPT !.pc = "threw",
                               !.errors = <<"Invalid Amazon URL provided">>]
                ELSE IF BrowserOf(a.scraper) # 0
                THEN [a EXCEPT !.pc = "newPage", !.b = BrowserOf(a.scraper)]
                ELSE [a EXCEPT !.pc = "primary"]]
    /\ UNCHANGED <<browser, enhBrowser, launches, procs, useLocalBrowser,
                   closing, retired>>
    /\ UNCHANGED <<cfgResp, restVars>>

\* this.browser = await puppeteer.launch(launchOptions) settles
BsPrimary(c) ==
    /\ acq[c].pc = "primary"
    /\ \/ LET id == launches + 1
              a == [acq[c] EXCEPT !.attempts = @ + 1, !.own = @ \cup {id}]
          IN /\ launches' = id
             /\ procs' = procs \cup {Proc(id, a.scraper, ~a.local)}
             /\ IF a.scraper = "regular"
                THEN /\ browser' = id
                     /\ enhBrowser' = enhBrowser
                     /\ acq' = [acq EXCEPT ![c] = [a EXCEPT !.pc = "pages"]]
                ELSE /\ enhBrowser' = id
                     /\ browser' = browser
                     /\ acq' = [acq EXCEPT ![c] =
                                   [a EXCEPT !.pc = "newPage", !.b = id]]
       \/ /\ acq' = [acq EXCEPT ![c] =
                [@ EXCEPT !.attempts = @ + 1,
                          !.errors = Append(@, "launch"),
                          !.pc = IF acq[c].scraper = "regular"
                                 THEN "fallback" ELSE "failed"]]
          /\ UNCHANGED <<browser, enhBrowser, launches, procs>>
    /\ UNCHANGED <<useLocalBrowser, closing, retired, ncalls>>
    /\ UNCHANGED <<cfgResp, restVars>>

\* await this.browser.pages() settles; on success initBrowser returns
\* this.browser as it is by then
BsPages(c) ==
    /\ acq[c].pc = "pages"
    /\ \/ /\ \E id \in acq[c].own : Alive(id)
          /\ acq' = [acq EXCEPT ![c] = [@ EXCEPT !.pc = "newPage", !.b = browser]]
       \/ acq' = [acq EXCEPT ![c] =
                [@ EXCEPT !.pc = "fallback", !.errors = Append(@, "pages")]]
    /\ UNCHANGED <<browser, enhBrowser, launches, procs, useLocalBrowser,
                   closing, retired, ncalls>>
    /\ UNCHANGED <<cfgResp, restVars>>

\* the catch block: this.browser = await puppeteer.launch(fallbackOptions)
\* settles
BsFallback(c) ==
    /\ acq[c].pc = "fallback"
    /\ \/ LET id == launches + 1
          IN /\ launches' = id
             /\ procs' = procs \cup {Proc(id, "regular", TRUE)}
             /\ browser' = id
             /\ acq' = [acq EXCEPT ![c] =
                   [@ EXCEPT !.attempts = @ + 1, !.own = @ \cup {id},
                             !.pc = "newPage", !.b = id]]
       \/ /\ acq' = [acq EXCEPT ![c] =
                [@ EXCEPT !.attempts = @ + 1,
                          !.errors = Append(@, "fallback"),
                          !.pc = "failed"]]
          /\ UNCHANGED <<browser, launches, procs>>
    /\ UNCHANGED <<enhBrowser, useLocalBrowser, closing, retired, ncalls>>
    /\ UNCHANGED <<cfgResp, restVars>>

\* createPage: await browser.newPage() settles
BsNewPage(c) ==
    /\ acq[c].pc = "newPage"
    /\ \/ /\ Alive(acq[c].b)
          /\ acq' = [acq EXCEPT ![c] = [@ EXCEPT !.pc = "page", !.pages = @ + 1]]
       \/ acq' = [acq EXCEPT ![c] = [@ EXCEPT !.pc = "pageFailed"]]
    /\ UNCHANGED <<browser, enhBrowser, launches, procs, useLocalBrowser,
                   closing, retired, ncalls>>
    /\ UNCHANGED <<cfgResp, restVars>>

\* page.goto and the extraction settle; a detail call closes its page only
\* when the extraction succeeded
BsNavigate(c) ==
    /\ acq[c].pc = "page"
    /\ \/ acq' = [acq EXCEPT ![c] = [@ EXCEPT !.pc = "navigated", !.navs = @ + 1]]
       \/ /\ acq[c].kind = "detail"
          /\ acq' = [acq EXCEPT ![c] = [@ EXCEPT !.pc = "navFailed", !.navs = @ + 1]]
    /\ UNCHANGED <<browser, enhBrowser, launches, procs, useLocalBrowser,
                   closing, retired, ncalls>>
    /\ UNCHANGED <<cfgResp, restVars>>

\* await page.close(): the page goes, the browser stays
BsRelease(c) ==
    /\ acq[c].pc = "navigated"
    /\ acq' = [acq EXCEPT ![c] = [@ EXCEPT !.pc = "released", !.closed = @ + 1]]
    /\ UNCHANGED <<browser, enhBrowser, launches, procs, useLocalBrowser,
                   closing, retired, ncalls>>
    /\ UNCHANGED <<cfgResp, restVars>>

\* closeBrowser up to its await: if (this.browser) await this.browser.close()
CloseBrowserCall == IF browser # 0 THEN closing \cup {browser} ELSE closing

\* getCurrentBrowserMode() with this.useLocalBrowser = useLocal
getCurrentBrowserMode(useLocal) == IF useLocal THEN "local visible" ELSE "headless"

\* POST /scraper-config -> setLocalBrowserMode(useLocal): the flag is set and
\* closeBrowser() is called without being awaited; the answer is built after
\* the call, previousMode from getCurrentBrowserMode()
BsSetMode ==
    /\ ncalls < MaxCalls
    /\ ncalls' = ncalls + 1
    /\ \E useLocal \in BOOLEAN :
          /\ useLocalBrowser' = useLocal
          /\ retired' = IF useLocal # useLocalBrowser /\ browser # 0
                        THEN retired \cup {browser} ELSE retired
          /\ cfgResp' = [previousMode |-> getCurrentBrowserMode(useLocal),
                         newMode |-> IF useLocal THEN "local" ELSE "headless",
                         was |-> getCurrentBrowserMode(useLocalBrowser)]
    /\ closing' = CloseBrowserCall
    /\ UNCHANGED <<browser, enhBrowser, launches, procs, acq>>
    /\ UNCHANGED restVars

\* cleanup() -> closeBrowser()
BsShutdown ==
    /\ ncalls < MaxCalls
    /\ ncalls' = ncalls + 1
    /\ browser # 0
    /\ closing' = CloseBrowserCall
    /\ UNCHANGED <<browser, enhBrowser, launches, procs, useLocalBrowser,
                   acq, retired>>
    /\ UNCHANGED <<cfgResp, restVars>>

\* closeBrowser after its await: the process is gone; this.browser = null
BsCloseDone ==
    /\ \E id \in closing :
          /\ closing' = closing \ {id}
          /\ procs' = { p \in procs : p.id # id }
    /\ browser' = 0
    /\ UNCHANGED <<enhBrowser, launches, useLocalBrowser, acq, retired, ncalls>>
    /\ UNCHANGED <<cfgResp, restVars>>

\* a browser process crashes or is closed from outside: nothing listens for
\* 'disconnected', this.browser keeps the handle
BsCrash ==
    /\ ncalls < MaxCalls
    /\ ncalls' = ncalls + 1
    /\ \E p \in procs : procs' = procs \ {p}
    /\ UNCHANGED <<browser, enhBrowser, launches, useLocalBrowser, acq, closing,
                   retired>>
    /\ UNCHANGED <<cfgResp, restVars>>

InitBrowser ==
    /\ products = <<>>
    /\ sessions = <<>>
    /\ pc = "idle"
    /\ req = InitReq
    /\ response = NoResponse
    /\ browser = 0
    /\ enhBrowser = 0
    /\ launches = 0
    /\ pageOpen = FALSE
    /\ skipBrowser = FALSE
    /\ nreq = 0
    /\ RetryIdle
    /\ StoreIdle
    /\ ScrollIdle
    /\ LaunchIdle
    /\ PoolIdle
    /\ ProbeIdle

NextBrowser ==
    \/ \E c \in Callers : BsAcquire(c)
    \/ \E c \in Callers : BsPrimary(c)
    \/ \E c \in Callers : BsPages(c)
    \/ \E c \in Callers : BsFallback(c)
    \/ \E c \in Callers : BsNewPage(c)
    \/ \E c \in Callers : BsNavigate(c)
    \/ \E c \in Callers : BsRelease(c)
    \/ BsSetMode
    \/ BsShutdown
    \/ BsCloseDone
    \/ BsCrash

SpecBrowser == InitBrowser /\ [][NextBrowser]_vars

\* the scraper calls made one at a time: a single caller, with mode switches
\* and closeBrowser between and during its calls
NextDetail ==
    \/ BsAcquire(1)
    \/ BsPrimary(1)
    \/ BsPages(1)
    \/ BsFallback(1)
    \/ BsNewPage(1)
    \/ BsNavigate(1)
    \/ BsRelease(1)
    \/ BsSetMode
    \/ BsShutdown
    \/ BsCloseDone
    \/ BsCrash

SpecDetail == InitBrowser /\ [][NextDetail]_vars

----------------------------------------------------------------------------
(* Which URL each tier fetches.  Tier 1 resolves it from the metadata table *)
(* (getScrapingUrl); tier 2 is scrapeWithHttpOnly.                           *)

coreVars ==
    <<products, handlerVars, browserVars, retryVars, storeVars, scrollVars,
      launchVars>>

DefaultUrl == "https://www.amazon.com/gp/bestsellers/electronics/"
TargetCategories == {"electronics", "books", "toys"}
MetadataUrls ==
    {DefaultUrl, "https://www.amazon.com/gp/bestsellers/books/",
     "https://www.amazon.in/gp/bestsellers/electronics/"}

\* the metadata tables: at most one row per (type, category)
MetadataTables ==
    { { [type |-> "amazon", category |-> c, url |-> f[c]] :
          c \in {k \in TargetCategories : f[k] # ""} } :
      f \in [TargetCategories -> MetadataUrls \cup {""}] }

\* SELECT url FROM metadata WHERE type = $1 AND category = $2, else the default
getScrapingUrl(metadata, type, category) ==
    LET rows == {r \in metadata : r.type = type /\ r.category = category}
    IN IF rows = {} THEN DefaultUrl ELSE (CHOOSE r \in rows : TRUE).url

\* const url = '.../gp/bestsellers/electronics/' whatever the request says
scrapeWithHttpOnlyUrl(metadata, type, category) == DefaultUrl

\* getTrendingProducts(limit, type, category) is called
TuRequest ==
    /\ tierUrls.pc \in {"off", "done"}
    /\ \E category \in TargetCategories, metadata \in MetadataTables :
          tierUrls' = [NoTarget EXCEPT !.pc = "tier1", !.category = category,
                                       !.metadata = metadata]
    /\ UNCHANGED <<coreVars, poolVars, extract>>

\* scrapeTrendingProducts: targetUrl = await this.getScrapingUrl(type, category);
\* the page load then succeeds or throws
TuTier1 ==
    /\ tierUrls.pc = "tier1"
    /\ \E ok \in BOOLEAN :
          tierUrls' = [tierUrls EXCEPT
              !.tier1Url = getScrapingUrl(tierUrls.metadata, "amazon",
                                          tierUrls.category),
              !.pc = IF ok THEN "done" ELSE "tier2"]
    /\ UNCHANGED <<coreVars, poolVars, extract>>

\* catch of getTrendingProducts: scrapeWithHttpOnly(limit)
TuTier2 ==
    /\ tierUrls.pc = "tier2"
    /\ tierUrls' = [tierUrls EXCEPT
          !.tier2Url = scrapeWithHttpOnlyUrl(tierUrls.metadata, "amazon",
                                             tierUrls.category),
          !.pc = "done"]
    /\ UNCHANGED <<coreVars, poolVars, extract>>

NextTarget == TuRequest \/ TuTier1 \/ TuTier2
SpecTarget == InitBrowser /\ [][NextTarget]_vars

----------------------------------------------------------------------------
(* The connection pool.  Each caller runs one logical database operation    *)
(* at a time: pool.connect(), its statements, client.release().             *)
(* checkedOut counts the clients that are out of the pool.                  *)

InitStatements == 11   \* the statements of initializeDatabase

\* the operations and how each one gives its client back:
\*   "finally"     try { query } finally { client.release() }
\*   "transaction" saveProducts: BEGIN .. COMMIT, catch ROLLBACK, finally release
\*   "probe"       testConnection: release after the query, catch returns false
\*   "setup"       initializeDatabase: release after the last statement
PoolOps ==
    { [name |-> "getProducts", style |-> "finally", statements |-> 1],
      [name |-> "getScrapingUrl", style |-> "finally", statements |-> 1],
      [name |-> "getMetadata", style |-> "finally", statements |-> 1],
      [name |-> "saveProducts", style |-> "transaction", statements |-> 3],
      [name |-> "testConnection", style |-> "probe", statements |-> 1],
      [name |-> "initializeDatabase", style |-> "setup",
       statements |-> InitStatements] }

OpOf(name) == CHOOSE op \in PoolOps : op.name = name

\* whether the operation still holds its client once a statement has thrown
\* an error it does not tolerate
HoldsAfterError(style) == style \in {"probe", "setup"}

PoolFrame == UNCHANGED <<coreVars, probeVars>>

\* an operation is called
PoolCall(c) ==
    /\ conns[c].pc \in {"idle", "returned", "threw"}
    /\ \E op \in PoolOps :
          conns' = [conns EXCEPT ![c] =
                       [NoConn EXCEPT !.op = op.name, !.pc = "connect"]]
    /\ UNCHANGED checkedOut
    /\ PoolFrame

\* const client = await pool.connect(): a client, or an error when the pool
\* is empty (connectionTimeoutMillis) or the database is down
PoolConnect(c) ==
    /\ conns[c].pc = "connect"
    /\ \/ /\ checkedOut < PoolMax
          /\ conns' = [conns EXCEPT ![c].pc = "query", ![c].step = 1,
                                    ![c].held = TRUE]
          /\ checkedOut' = checkedOut + 1
       \/ /\ conns' = [conns EXCEPT ![c].pc =
                 IF OpOf(conns[c].op).style = "probe" THEN "returned"
                 ELSE "threw"]
          /\ UNCHANGED checkedOut
    /\ PoolFrame

\* await client.query(...): the statement at conns[c].step succeeds, fails
\* with an error the operation tolerates (setup only), or fails otherwise
PoolQuery(c) ==
    /\ conns[c].pc = "query"
    /\ LET op == OpOf(conns[c].op)
           last == conns[c].step = op.statements
       IN \/ \E tolerated \in {b \in BOOLEAN : b => op.style = "setup"} :
               \* the statement is over and the operation goes on
               IF last
               THEN /\ conns' = [conns EXCEPT ![c].pc = "returned",
                                              ![c].held = FALSE]
                    /\ checkedOut' = checkedOut - 1
               ELSE /\ conns' = [conns EXCEPT ![c].step = @ + 1]
                    /\ UNCHANGED checkedOut
          \/ \* the statement throws
             IF op.style = "transaction"
             THEN /\ conns' = [conns EXCEPT ![c].pc = "rollback"]
                  /\ UNCHANGED checkedOut
             ELSE IF HoldsAfterError(op.style)
             THEN /\ conns' = [conns EXCEPT ![c].pc =
                         IF op.style = "probe" THEN "returned" ELSE "threw"]
                  /\ UNCHANGED checkedOut
             ELSE /\ conns' = [conns EXCEPT ![c].pc = "threw",
                                            ![c].held = FALSE]
                  /\ checkedOut' = checkedOut - 1
    /\ PoolFrame

\* saveProducts: catch { await client.query('ROLLBACK'); throw error }
\* finally { client.release() }, whether or not ROLLBACK itself throws
PoolRollback(c) ==
    /\ conns[c].pc = "rollback"
    /\ conns' = [conns EXCEPT ![c].pc = "threw", ![c].held = FALSE]
    /\ checkedOut' = checkedOut - 1
    /\ PoolFrame

NextPool ==
    \E c \in Callers :
       PoolCall(c) \/ PoolConnect(c) \/ PoolQuery(c) \/ PoolRollback(c)
SpecPool == InitBrowser /\ [][NextPool]_vars

----------------------------------------------------------------------------
(* The extraction loops inside page.evaluate: one candidate element at      *)
(* position i of productElements, in the regular scraper                    *)
(* (scrapeTrendingProducts) and in the enhanced one                         *)
(* (scrapeProductsWithScrolling), and the save of what the loop returned.   *)

BadgeChars == {"#", "0", "1", "x", " ", "-"}

RECURSIVE Texts(_)
\* the texts of at most n characters
Texts(n) ==
    IF n = 0 THEN {<<>>}
    ELSE Texts(n - 1)
         \cup {Append(t, ch) : t \in {u \in Texts(n - 1) : Len(u) = n - 1},
                               ch \in BadgeChars}

\* a candidate: whether a title of five characters or more was found, the
\* data-asin attribute, the ASIN in the /dp/ link (NoAsin without such a
\* link), and the text of the .zg-bdg-text badge (empty without a badge)
Elements ==
    [titleOk : BOOLEAN, dataAsin : {"", "A1"}, href : {NoAsin, "A1"},
     badge : Texts(MaxBadge)]

RECURSIVE TrimStart(_)
TrimStart(text) ==
    IF text # <<>> /\ Head(text) = " " THEN TrimStart(Tail(text)) ELSE text

RECURSIVE TrimEnd(_)
TrimEnd(text) ==
    IF text # <<>> /\ text[Len(text)] = " "
    THEN TrimEnd(SubSeq(text, 1, Len(text) - 1))
    ELSE text

\* String.prototype.trim
Trim(text) == TrimEnd(TrimStart(text))

RECURSIVE ReplaceFirst(_, _)
\* text.replace(ch, ''): the first occurrence only
ReplaceFirst(text, ch) ==
    IF text = <<>> THEN <<>>
    ELSE IF Head(text) = ch THEN Tail(text)
    ELSE <<Head(text)>> \o ReplaceFirst(Tail(text), ch)

\* database.ts:708-719: data-asin, else the ASIN of the link
regularAsin(element) ==
    IF element.dataAsin # "" THEN element.dataAsin
    ELSE IF element.href # NoAsin THEN element.href
    ELSE ""

\* what the regular loop pushes for the element at position i (1-based)
regularExtract(element, i) ==
    IF ~element.titleOk THEN <<>>
    ELSE IF regularAsin(element) = "" THEN <<>>
    ELSE << Product(i, "T1", regularAsin(element), element.href, "browser") >>

\* what the enhanced loop pushes for the element at position i (1-based)
enhancedExtract(element, i) ==
    IF ~element.titleOk THEN <<>>
    ELSE LET badge == Trim(element.badge)
             item == [Product(i, "T1", NoAsin, element.href, "browser")
                         EXCEPT !.sourceAsin = element.dataAsin]
         IN IF badge # <<>>
            THEN << [item EXCEPT !.rank = 0, !.rankIsString = TRUE,
                                 !.rankText = ReplaceFirst(badge, "#")] >>
            ELSE << item >>

\* page.evaluate starts on an element
ExStart ==
    /\ extract.pc = "off"
    /\ \E scraper \in {"regular", "enhanced"}, i \in 1..MaxPosition,
          element \in Elements :
          extract' = [NoExtract EXCEPT !.pc = "element", !.scraper = scraper,
                                       !.i = i, !.element = element]
    /\ UNCHANGED <<coreVars, poolVars, tierUrls>>

\* the body of the loop for that element
ExEvaluate ==
    /\ extract.pc = "element"
    /\ LET results == IF extract.scraper = "regular"
                      THEN regularExtract(extract.element, extract.i)
                      ELSE enhancedExtract(extract.element, extract.i)
       IN extract' = [extract EXCEPT
              !.results = results,
              !.pc = IF results = <<>> THEN "dropped" ELSE "emitted"]
    /\ UNCHANGED <<coreVars, poolVars, tierUrls>>

\* dbService.saveProducts(scrapedProducts, category) on an empty table
ExSave ==
    /\ extract.pc = "emitted"
    /\ extract' = [extract EXCEPT
          !.rows = saveProducts(<<>>, extract.results, "electronics"),
          !.pc = "saved"]
    /\ UNCHANGED <<coreVars, poolVars, tierUrls>>

\* the call is over: its locals are gone
ExReturn ==
    /\ extract.pc \in {"dropped", "saved"}
    /\ extract' = NoExtract
    /\ UNCHANGED <<coreVars, poolVars, tierUrls>>

NextExtract == ExStart \/ ExEvaluate \/ ExSave \/ ExReturn
SpecExtract == InitBrowser /\ [][NextExtract]_vars

----------------------------------------------------------------------------
(* Properties of the request flow (Spec)                                    *)

LiveLabels == {LiveLabel, EnhLiveLabel}
DegradedCacheLabels == {CacheFallbackLabel, EnhFallbackLabel}

\* getTrendingProducts has been called by /products and has completed
ChainFinished ==
    /\ req.endpoint = "products"
    /\ req.sessionId # 0
    /\ pc \in {"save", "updateSession", "catchUpdate", "done"}

\* C1: every products request with a supported source and a positive limit
\* ends with a success result holding at least one record, whatever the
\* outcome of each browser, HTTP and database operation.
C1_AlwaysSuccessWithRecords ==
    (pc = "done" /\ req.trending = "amazon" /\ req.limit > 0)
        => (response.status = 200 /\ Len(response.products) >= 1)

\* C2: getTrendingProducts never raises: for every combination of tier-1 and
\* tier-2 outcomes it returns a list from one of its tiers, and when the HTTP
\* tier has failed it returns the static sample records.
C2_ChainNeverThrows ==
    ChainFinished =>
        /\ "chain" \notin req.failed
        /\ req.tier \in {"tier1", "tier2", "tier4"}
        /\ ("http" \in req.failed =>
               /\ req.tier = "tier4"
               /\ req.scraped = getFallbackProducts(req.limit))

\* C2 witness: both the browser tier and the HTTP tier failed and the chain
\* returned the sample records
C2_Witness ==
    /\ ChainFinished
    /\ {"browser", "http"} \subseteq req.failed
    /\ req.tier = "tier4"
    /\ Len(req.scraped) > 0

\* C3: the chain never returns an empty list: a tier that completes with zero
\* records is treated as unavailable and the next tier is tried.
C3_ChainNeverEmpty ==
    (ChainFinished /\ req.tier # "none") => Len(req.scraped) > 0

\* C4: when tier 1 and tier 2 both fail and the cache holds a row of the
\* category inside the extended staleness window, a request that is answered
\* returns cached rows labelled as degraded cache, not the static samples.
C4_StaleCacheBeforeStatic ==
    ( /\ pc = "done"
      /\ response.status = 200
      /\ \/ {"browser", "http"} \subseteq req.failed
         \/ "enhanced" \in req.failed
      /\ req.stale )
        => /\ response.source \in DegradedCacheLabels
           /\ \A i \in 1..Len(response.products) :
                 response.products[i].src # "static"

\* C5: if the extraction yielded records and the batch save failed, a request
\* that is answered returns exactly those freshly extracted records.
C5_SaveFailureKeepsScraped ==
    ( /\ pc = "done"
      /\ response.status = 200
      /\ req.tier = "tier1"
      /\ "save" \in req.failed )
        => response.products = req.scraped

\* C6: a result is labelled as live extraction only when tier 1 (browser
\* extraction) produced its records.
C6_LiveLabelOnlyForTier1 ==
    ( /\ pc = "done"
      /\ response.status = 200
      /\ response.source \in LiveLabels )
        => /\ req.tier = "tier1"
           /\ \A i \in 1..Len(response.products) :
                 response.products[i].src = "browser"

\* C9: in the fallback chain, the HTTP tier starts only after the browser
\* extraction has failed maxRetries (3) consecutive times.
C9_HttpAfterThreeBrowserFailures ==
    (req.endpoint = "products" /\ ~skipBrowser /\ req.t2calls > 0)
        => req.t1calls = maxRetries

\* the rows hold the same record under the same category
SameRecord(a, b) ==
    /\ a.title = b.title /\ a.rank = b.rank /\ a.link = b.link
    /\ a.sourceAsin = b.sourceAsin /\ a.src = b.src /\ a.category = b.category

\* C11: upsert is idempotent: a record saved again under the same category
\* leaves exactly one row for it, so no two rows of the table hold the same
\* record of the same category.
C11_UpsertIdempotent ==
    \A i, j \in 1..Len(products) :
        SameRecord(products[i], products[j]) => i = j

\* what a read of the category can see
RowsOf(table, category) == SelectSeq(table, LAMBDA r : r.category = category)

\* C16: saving records under one category leaves the rows of every other
\* category, and their contents, as they were.
C16_SaveLeavesOtherCategories ==
    [][ pc = "save" =>
           \A category \in StoreCategories \ {req.category} :
               RowsOf(products', category) = RowsOf(products, category) ]_vars

\* C17: a request is never answered with rows stored under another kind's
\* category, on the fresh-cache path or on the stale-cache fallback path.
C17_AnswerFromOwnCategory ==
    (pc = "done" /\ response.status = 200 /\ req.answerCategory # "")
        => req.answerCategory = req.category

\* C18: an extraction runs under a session row of its own that was created
\* before it started; the session is closed once, when the request ends,
\* and a closed session is never changed again.
C18_SessionLifecycle ==
    /\ [](/\ ExtractionStarted => req.sessionId \in 1..Len(sessions)
          /\ (pc = "done" /\ req.sessionId # 0)
                => sessions[req.sessionId].completed)
    /\ [][ \A i \in 1..Len(sessions) :
              sessions[i].completed => sessions'[i] = sessions[i] ]_vars

\* C19: when a request that opened a session has returned, with a result or
\* with an error, its session row is closed.
C19_SessionClosedOnReturn ==
    \A i \in 1..Len(sessions) :
        (pc \in {"idle", "done"} \/ i # req.sessionId) => sessions[i].completed

----------------------------------------------------------------------------
(* Properties of saveProducts under concurrency (SpecStore)                 *)

\* the asins that rows or committed statements carry
StoredAsins ==
    ({ products[i].asin : i \in 1..Len(products) }
        \cup { log[i].asin : i \in 1..Len(log) }) \ {NoAsin}

\* the committed statement for the asin that was applied last
LastUpsert(asin) ==
    log[CHOOSE i \in 1..Len(log) :
            /\ log[i].asin = asin
            /\ \A j \in (i + 1)..Len(log) : log[j].asin # asin]

\* C12: after any interleaving of saveProducts calls the table holds exactly
\* one row for every non-null asin that was saved, and that row carries all
\* the fields of the upsert applied last.
C12_OneRowPerAsinLastWins ==
    \A asin \in StoredAsins :
        /\ Cardinality({ i \in 1..Len(products) : products[i].asin = asin }) = 1
        /\ \E i \in 1..Len(log) : log[i].asin = asin
        /\ \A i \in 1..Len(products) :
              products[i].asin = asin => products[i] = LastUpsert(asin)

\* C12 witness: two overlapping saveProducts calls have both committed a row
\* of the same asin under different categories
C12_Witness ==
    /\ \A c \in Clients : tx[c].state = "committed"
    /\ \E c \in Clients : tx[c].overlap
    /\ \E i, j \in 1..Len(log) :
          /\ i < j
          /\ log[i].asin # NoAsin
          /\ log[i].asin = log[j].asin
          /\ log[i].category # log[j].category
          /\ \E k \in 1..Len(products) : products[k] = log[j]

\* C13: a saveProducts call whose statement fails leaves no row of its batch
\* in the table and throws: the table is what the committed calls alone
\* produce.
C13_BatchAllOrNothing ==
    /\ products = Publish(<<>>, log)
    /\ \A c \in Clients :
          tx[c].state \in {"failed", "committed"} => tx[c].writes = <<>>
    /\ \A c \in Clients :
          tx[c].state = "committed" => tx[c].savedCount = Len(tx[c].list)

\* C13 witness: a call failed after its first row and before its last, while
\* another call committed
C13_Witness ==
    /\ \E c \in Clients :
          /\ tx[c].state = "failed"
          /\ tx[c].savedCount >= 1
          /\ tx[c].savedCount < Len(tx[c].list)
    /\ \E c \in Clients : tx[c].state = "committed"
    /\ products # <<>>

----------------------------------------------------------------------------
(* Properties of the cache reads (SpecRead)                                 *)

\* the rows of the category that are younger than the window
FreshRows(category, maxAgeHours) ==
    { i \in 1..Len(products) :
        products[i].category = category /\ products[i].age < maxAgeHours }

\* C14: hasFreshData answers hasFresh exactly when a row of the category is
\* strictly younger than maxAgeHours, with count the number of such rows; a
\* row exactly maxAgeHours old does not count and no rows give (false, 0).
C14_IsFreshStrict ==
    lastRead.op = "hasFreshData" =>
        LET fresh == FreshRows(lastRead.category, lastRead.maxAgeHours)
        IN /\ lastRead.hasFresh = (fresh # {})
           /\ lastRead.count = Cardinality(fresh)

\* C14 witness: the only rows of the category are exactly maxAgeHours old
\* and the answer is (false, 0)
C14_Witness ==
    /\ lastRead.op = "hasFreshData"
    /\ \E i \in 1..Len(products) : products[i].category = lastRead.category
    /\ \A i \in 1..Len(products) :
          products[i].category = lastRead.category
              => products[i].age = lastRead.maxAgeHours
    /\ ~lastRead.hasFresh
    /\ lastRead.count = 0

\* C15: getProducts returns only rows of the category that are younger than
\* the window, by rank ascending and then the more recent first, and never
\* more than limit of them.
C15_ReadContract ==
    lastRead.op = "getProducts" =>
        LET rows == lastRead.rows
        IN /\ Len(rows) <= lastRead.limit
           /\ \A k \in 1..Len(rows) :
                 \E i \in FreshRows(lastRead.category, lastRead.maxAgeHours) :
                     rows[k] = convertFromDbProduct(products[i])
           /\ \A k \in 1..(Len(rows) - 1) :
                 \/ rows[k].rank < rows[k + 1].rank
                 \/ /\ rows[k].rank = rows[k + 1].rank
                    /\ rows[k].age <= rows[k + 1].age

\* C15 witness: two rows of equal rank and different age were returned, the
\* more recent first, while the table holds rows the read left out
C15_Witness ==
    /\ lastRead.op = "getProducts"
    /\ Len(lastRead.rows) = 2
    /\ lastRead.rows[1].rank = lastRead.rows[2].rank
    /\ lastRead.rows[1].age < lastRead.rows[2].age
    /\ Len(products) > 2

----------------------------------------------------------------------------
(* Properties of the extraction loops (SpecScroll)                          *)

\* C20: an extraction loop performs at most maxScrollAttempts rounds and then
\* returns the slice of what it accumulated, even when targetProducts is
\* never reached and every round yields records.
C20_ScrollBounded ==
    /\ scroll.rounds <= maxScrollAttempts
    /\ scroll.rounds = maxScrollAttempts => scroll.pc # "loop"
    /\ scroll.pc = "returned" =>
          scroll.result = Slice(scroll.allProducts, scroll.targetProducts)

\* C20 witness: every one of the maxScrollAttempts rounds added records and
\* the loop returned short of targetProducts
C20_Witness ==
    /\ scroll.pc = "returned"
    /\ scroll.rounds = maxScrollAttempts
    /\ scroll.yields = maxScrollAttempts
    /\ Len(scroll.allProducts) < scroll.targetProducts
    /\ scroll.result = scroll.allProducts

----------------------------------------------------------------------------
(* Properties of retryOperation (SpecRetry)                                 *)

\* C21: no two records returned by an extraction loop have the same title,
\* whatever the rounds extracted.
C21_NoDuplicateTitles ==
    scroll.pc = "returned" =>
       \A i, j \in 1..Len(scroll.result) :
          scroll.result[i].title = scroll.result[j].title => i = j

\* C22: when the rounds of the enhanced loop discovered more unique titles
\* than targetProducts, the result is exactly the first targetProducts
\* records in the order of discovery; the later ones are discarded.
C22_FirstTargetInDiscoveryOrder ==
    (/\ scroll.scraper = "enhanced"
     /\ scroll.pc = "returned"
     /\ Len(scroll.allProducts) > scroll.targetProducts) =>
       /\ Len(scroll.result) = scroll.targetProducts
       /\ \A k \in 1..scroll.targetProducts : scroll.result[k] = ScrollItems[k]

\* C22 witness: three rounds each added new titles, together more than
\* targetProducts, and the loop returned
C22_Witness ==
    /\ scroll.scraper = "enhanced"
    /\ scroll.pc = "returned"
    /\ scroll.rounds = 3
    /\ scroll.yields = 3
    /\ Len(scroll.allProducts) >= scroll.targetProducts + 2
    /\ Len(scroll.result) = scroll.targetProducts

\* C23: at most one browser process launched by a scraper is alive, whatever
\* calls were made: a browser is launched only when none is running.
C23_OneBrowserAlive ==
    \A scraper \in {"regular", "enhanced"} :
       Cardinality({ p \in procs : p.scraper = scraper }) <= 1

\* C24: a createPage call that starts after the mode was changed never gets
\* the browser that was running under the old mode.
C24_NoOldBrowserAfterSwitch ==
    \A c \in Callers : acq[c].b \notin acq[c].since

\* C25: an initBrowser call that fails has made exactly two launch attempts,
\* the primary one and the fallback one, carries both underlying messages,
\* and leaves no browser it launched registered as running.
C25_LaunchFallbackOnce ==
    \A c \in Callers :
       acq[c].pc = "failed" =>
          /\ acq[c].attempts = 2
          /\ Len(acq[c].errors) = 2
          /\ acq[c].errors[2] = "fallback"
          /\ BrowserOf(acq[c].scraper) \notin acq[c].own

\* a pathname none of whose segments names a product
NoProductSegment(path) ==
    \A i \in 1..Len(path) : path[i] \notin {"dp", "product"}

\* C26: scrapeProductDetails called with a URL that has no product-path
\* segment throws 'Invalid Amazon URL provided' before anything else: no
\* browser is launched or taken, no page is opened, nothing is navigated.
C26_InvalidUrlRejectedFirst ==
    \A c \in Callers :
       (acq[c].kind = "detail" /\ NoProductSegment(acq[c].url.path)) =>
          /\ acq[c].pc = "threw"
          /\ acq[c].errors = <<"Invalid Amazon URL provided">>
          /\ acq[c].attempts = 0
          /\ acq[c].b = 0
          /\ acq[c].pages = 0
          /\ acq[c].navs = 0

\* C26 witness: a URL on an Amazon domain without a product path was
\* rejected while a browser was running that the call could have used
C26_Witness ==
    \E c \in Callers :
       /\ acq[c].kind = "detail"
       /\ isAmazonDomain(acq[c].url.host)
       /\ NoProductSegment(acq[c].url.path)
       /\ acq[c].pc = "threw"
       /\ browser # 0
       /\ Alive(browser)

\* C27: a products request with force=true always opens a session and starts
\* an extraction, whatever the cache holds, and is never answered from the
\* fresh cache.
C27_ForceAlwaysExtracts ==
    (pc = "done" /\ req.trending = "amazon" /\ req.force) =>
        /\ req.sessionId # 0
        /\ ExtractionStarted
        /\ response.source \notin {CacheLabel, EnhCacheLabel}

\* C28: a request that repeats, without force and inside the cache window,
\* a request that extracted and saved records is served from the cache: it
\* opens no session and starts no extraction.
C28_FollowUpServedFromCache ==
    req.followUp =>
        /\ req.sessionId = 0
        /\ ~ExtractionStarted
        /\ (pc = "done" /\ response.status = 200) =>
              response.source \in {CacheLabel, EnhCacheLabel}

\* the database calls a products request makes before any extraction
DbReadOps == {"getProducts", "hasFreshData", "createSession"}

\* C29: a products request that finds the database unavailable falls back to
\* direct extraction and still answers with records.
C29_DbDownStillExtracts ==
    (/\ pc = "done"
     /\ req.trending = "amazon"
     /\ req.failed \cap DbReadOps # {}) =>
        /\ ExtractionStarted
        /\ response.status = 200
        /\ Len(response.products) >= 1

\* C30: a products request whose trending parameter is missing or is not
\* 'amazon' is answered 400 in the step that receives it: nothing is read
\* from the cache, no session is created, nothing is extracted or saved, and
\* the table, the sessions and the browsers are what they were.
C30_RejectedBeforeAnything ==
    [][(nreq' = nreq + 1 /\ req'.trending # "amazon") =>
          /\ pc' = "done"
          /\ response' = [status |-> 400, products |-> <<>>, source |-> ""]
          /\ req'.dbProducts = <<>> /\ req'.failed = {}
          /\ req'.sessionId = 0
          /\ req'.t1calls + req'.t2calls = 0
          /\ req'.savedCount = 0
          /\ UNCHANGED <<products, sessions, browser, enhBrowser, launches>>]_vars

\* C30 witness: a request with an unsupported trending value was rejected
\* while the table held rows, a session was recorded and a browser was running
C30_Witness ==
    /\ pc = "done"
    /\ response.status = 400
    /\ req.trending = "ebay"
    /\ products # <<>>
    /\ sessions # <<>>
    /\ browser # 0

\* C31: the saved detail record that getProductByUrl serves for a URL inside
\* the window equals the record the live detail extraction returned for that URL,
\* in every field, the optional details included.
C31_DetailRoundTrip ==
    (/\ lastRead.op = "getProductByUrl"
     /\ lastRead.rows # <<>>
     /\ lastRead.rows[1].src = "detail") =>
        [lastRead.rows[1] EXCEPT !.age = 0] = DetailItem

\* C32: when createPage calls run concurrently and no launch fails, every
\* browser process that is alive is the one its scraper's singleton refers
\* to: the callers launched one browser between them and left none behind.
C32_SingleFlightLaunch ==
    (\A c \in Callers : acq[c].errors = <<>>) =>
        \A p \in procs : p.id = BrowserOf(p.scraper)

\* C33: when an extraction call has returned or thrown, every page it
\* acquired has been closed.
C33_PagesClosedOnReturn ==
    \A c \in Callers :
       acq[c].pc \in (BsTerminal \ {"idle"}) => acq[c].closed = acq[c].pages

\* C40: the answer of POST /scraper-config reports as previousMode the mode
\* that was in effect before the request.
C40_PreviousModeReported ==
    cfgResp # NoConfig => cfgResp.previousMode = cfgResp.was

\* C39: once a call has failed to open a page because the registered browser
\* is gone, a later createPage call launches a new browser instead of using
\* the dead one again.
C39_RelaunchAfterCrash ==
    \A c \in Callers :
       acq[c].stale => (acq[c].pc = "primary" \/ acq[c].attempts > 0)

\* C38: static sample records are never written to the record store: every
\* stored row was produced by a live extraction.
C38_NoStaticRowStored ==
    \A i \in 1..Len(products) : products[i].src # "static"

\* C35: tier 2 fetches the same URL as tier 1 for the requested
\* (type, category): the metadata row's URL, or the default without a row.
C35_Tier2SameTarget ==
    tierUrls.tier2Url # "" => tierUrls.tier2Url = tierUrls.tier1Url

\* C36: list-mode extraction never emits a record without an external
\* identifier: a candidate with neither a data-asin attribute nor an ASIN in
\* its detail link is dropped.
C36_NoRecordWithoutIdentifier ==
    extract.results # <<>> =>
        (extract.element.dataAsin # "" \/ extract.element.href # NoAsin)

\* C37: every persisted record has an integer rank of at least 1, whether
\* the rank came from the position or from a rank badge, for every badge text.
C37_PersistedRankAtLeastOne ==
    \A k \in 1..Len(extract.rows) : extract.rows[k].rank >= 1

\* C34: every database operation gives back the client it acquired, on its
\* success path and on every failure path: an operation that is over holds
\* no client, and the clients out of the pool are those of the operations
\* in progress.
C34_ConnectionsReleased ==
    /\ \A c \in Callers :
          conns[c].pc \in {"idle", "returned", "threw"} => ~conns[c].held
    /\ checkedOut = Cardinality({c \in Callers : conns[c].held})

C8_FirstSuccessOrLastError ==
    /\ \A i \in 1..(Len(calls) - 1) : calls[i].outcome = "error"
    /\ rpc = "done" =>
        \/ /\ rresult.kind = "return"
           /\ ThisCall.outcome = "ok"
           /\ rresult.value = ThisCall.value
        \/ /\ rresult.kind = "throw"
           /\ Len(calls) = maxRetries
           /\ ThisCall.outcome = "error"
           /\ rresult.error = ThisCall.error

\* C8 witness: all attempts failed, the first and the last with different
\* errors, and the call ended with an error
C8_Witness ==
    /\ rpc = "done"
    /\ rresult.kind = "throw"
    /\ Len(calls) = maxRetries
    /\ calls[1].error # ThisCall.error

\* C10: every retry attempt uses a fresh browser instance: no two attempts
\* that got a browser got the same one.
C10_FreshBrowserPerAttempt ==
    \A i, j \in 1..Len(calls) :
        (i < j /\ calls[i].browser # 0) => calls[i].browser # calls[j].browser

====
